---- MODULE Spec2Model ----
(***************************************************************************)
(* macrond: the schedule evaluator (src/src/scheduler.rs), the job loader  *)
(* (src/src/config.rs) and the daemon control loop with its lockfile,      *)
(* request directory, completion channel and supervision tasks             *)
(* (src/src/daemon.rs, src/src/app.rs).                                    *)
(*                                                                         *)
(* Instants (DateTime<Local>) are whole seconds since 2024-01-01 00:00:00  *)
(* local standard time (a Monday).  The local zone has one spring-forward  *)
(* gap (2024-03-10 02:00 -> 03:00) and one fall-back overlap               *)
(* (2024-11-03 02:00 -> 01:00), as in a zone with US daylight-saving rules.*)
(* Option<T> is a set with at most one element; Result<T> is a record with *)
(* an err flag.  Strings that the code parses are sequences of characters. *)
(***************************************************************************)
EXTENDS Integers, Sequences, FiniteSets, TLC

VARIABLES
    \* ---- schedule evaluator harness (SpecSched) ----
    sjob,       \* the JobConfig handed to next_run_after
    safter,     \* the lower bound `after`
    swall,      \* what Local::now() returns during the call
    sres,       \* whether the call was made, and the Result it returned
    load_out,   \* SpecLoad: whether load_jobs was called, and its Result
    \* ---- the environment of one daemon ----
    clock,          \* the wall clock, Local::now()
    jobs_dir,       \* the files of <base>/jobs
    events,         \* the watcher's channel: events not yet drained
    requests_dir,   \* the files of <base>/run/requests
    fault,          \* which part of the file system currently fails
    state_file,     \* <base>/run/state.json
    \* ---- run_daemon ----
    pc,                 \* the control loop's position
    jobs,               \* the installed job set, ascending by id
    next_runs,          \* id -> Option<next fire instant>
    last_result,        \* id -> Option<ExecutionRecord>
    recent_runs,        \* the ring of recent records
    last_reload_error,  \* Option<String>
    rx_run,             \* the completion channel
    now,                \* `now` of the schedule-firing step (line 84)
    execs,              \* the supervision tasks, by run id
    \* ---- bookkeeping for the properties ----
    tick,       \* what the current tick has done so far
    removed,    \* ids removed by a successful reload and not added back
    budget,     \* edits, watcher errors and requests still to come
    rsent,      \* SpecRing: records sent so far
    \* ---- the lockfile protocol (SpecLock) ----
    pid_file,   \* <base>/run/daemon.pid: Option<pid>
    lpc,        \* each daemon process's position in run_daemon
    lseen,      \* what read_pid returned to each process
    lres,       \* how each process's run_daemon returned
    lcmd,       \* the outcome of the last command (start, status, list)
    \* ---- clients of the request directory, and the schedule's history ----
    creq,       \* each submit_run_request call: its position and payload
    fired_at,   \* id -> Option<instant of the job's last schedule dispatch>
    ctrl_c,     \* whether the select! of the loop has taken the ctrl_c() branch
    \* ---- one supervision task in detail (SpecExec) ----
    xjob,       \* the JobConfig execute_job was given
    xpc,        \* the task's position in execute_job
    xchild,     \* the child process: its state and the time it runs for
    xrec,       \* Option<the ExecutionRecord built so far>
    xlog        \* the lines the task has appended to the job log

svars == <<sjob, safter, swall, sres, load_out>>
evars == <<clock, jobs_dir, events, requests_dir, fault, state_file>>
dvars == <<pc, jobs, next_runs, last_result, recent_runs, last_reload_error,
           rx_run, now, execs>>
hvars == <<tick, removed, budget, rsent>>
lvars == <<pid_file, lpc, lseen, lres, lcmd>>
qvars == <<creq, fired_at, ctrl_c>>
xvars == <<xjob, xpc, xchild, xrec, xlog>>
vars == <<svars, evars, dvars, hvars, lvars, qvars, xvars>>

(***************************************************************************)
(* Option and Result                                                       *)
(***************************************************************************)
None == {}
Some(x) == {x}
IsSome(o) == o # {}
Unwrap(o) == CHOOSE x \in o : TRUE

Ok(v) == [err |-> FALSE, val |-> v]
Err(m) == [err |-> TRUE, msg |-> m]
\* Result<Option<T>>::ok().flatten()
OkFlatten(r) == IF r.err THEN None ELSE r.val

(***************************************************************************)
(* chrono: the proleptic calendar and the local time zone                  *)
(***************************************************************************)
IsLeap(y) == (y % 4 = 0 /\ y % 100 # 0) \/ y % 400 = 0

MonthLen(y, m) ==
    IF m = 2 THEN (IF IsLeap(y) THEN 29 ELSE 28)
    ELSE IF m \in {4, 6, 9, 11} THEN 30 ELSE 31

RECURSIVE DaysBeforeYear(_)
DaysBeforeYear(y) ==
    IF y <= 2024 THEN 0
    ELSE DaysBeforeYear(y - 1) + (IF IsLeap(y - 1) THEN 366 ELSE 365)

RECURSIVE DaysBeforeMonth(_, _)
DaysBeforeMonth(y, m) ==
    IF m <= 1 THEN 0 ELSE DaysBeforeMonth(y, m - 1) + MonthLen(y, m - 1)

\* NaiveDate::from_ymd_opt as a day number (0 = 2024-01-01)
DayNum(y, m, d) == DaysBeforeYear(y) + DaysBeforeMonth(y, m) + (d - 1)

ValidYmd(y, m, d) == y >= 2024 /\ m \in 1..12 /\ d >= 1 /\ d <= MonthLen(y, m)

Years == 2024..2027
YearOf(dn) == CHOOSE y \in Years : DaysBeforeYear(y) <= dn /\ dn < DaysBeforeYear(y + 1)
MonthOf(dn) ==
    LET y == YearOf(dn)
    IN CHOOSE m \in 1..12 : DayNum(y, m, 1) <= dn /\ dn < DayNum(y, m, 1) + MonthLen(y, m)
DayOf(dn) == dn - DayNum(YearOf(dn), MonthOf(dn), 1) + 1

\* Datelike::weekday, 1 = Monday .. 7 = Sunday
WeekdayOf(dn) == (dn % 7) + 1

\* NaiveDateTime as seconds since 2024-01-01 00:00:00 on the wall clock
Naive(y, m, d, h, mi, s) == DayNum(y, m, d) * 86400 + h * 3600 + mi * 60 + s

\* the instants at which the zone's offset changes
SpringForward == Naive(2024, 3, 10, 2, 0, 0)
FallBack == Naive(2024, 11, 3, 1, 0, 0)

\* the zone's offset from standard time at an instant
Offset(i) == IF i >= SpringForward /\ i < FallBack THEN 3600 ELSE 0

\* DateTime<Local>::naive_local
NaiveLocal(i) == i + Offset(i)

\* TimeZone::from_local_datetime: the instants whose wall clock reads n
from_local_datetime(n) ==
    LET cands == {i \in {n - 3600, n} : i >= 0 /\ NaiveLocal(i) = n}
    IN IF cands = {} THEN [kind |-> "None"]
       ELSE IF Cardinality(cands) = 1 THEN [kind |-> "Single", dt |-> Unwrap(cands)]
       ELSE [kind |-> "Ambiguous", dt |-> n - 3600, late |-> n]

\* TimeZone::with_ymd_and_hms
with_ymd_and_hms(y, m, d, h, mi, s) ==
    IF ~ValidYmd(y, m, d) THEN [kind |-> "None"]
    ELSE from_local_datetime(Naive(y, m, d, h, mi, s))

\* DateTime<Local>::date_naive as a day number
date_naive(i) == NaiveLocal(i) \div 86400

(***************************************************************************)
(* Parsing of the strings a job file carries                               *)
(***************************************************************************)
Digits == <<"0", "1", "2", "3", "4", "5", "6", "7", "8", "9">>
IsDigit(c) == \E k \in 1..10 : Digits[k] = c
DigitVal(c) == (CHOOSE k \in 1..10 : Digits[k] = c) - 1

RECURSIVE trim_start(_)
trim_start(s) == IF s # <<>> /\ Head(s) = " " THEN trim_start(Tail(s)) ELSE s

\* chrono format::scan::number(s, 1, max): at least one and at most max digits
RECURSIVE ScanDigits(_, _, _, _)
ScanDigits(s, max, n, acc) ==
    IF s # <<>> /\ n < max /\ IsDigit(Head(s))
    THEN ScanDigits(Tail(s), max, n + 1, acc * 10 + DigitVal(Head(s)))
    ELSE [n |-> n, val |-> acc, rest |-> s]

\* a numeric item of a chrono format string: skip white space, then scan
ScanNumber(s, max) ==
    LET r == ScanDigits(trim_start(s), max, 0, 0)
    IN IF r.n = 0 THEN Err("invalid") ELSE Ok([val |-> r.val, rest |-> r.rest])

\* a literal item of a chrono format string
ScanLiteral(s, c) ==
    IF s # <<>> /\ Head(s) = c THEN Ok(Tail(s)) ELSE Err("invalid")

\* NaiveTime::parse_from_str(s, "%H:%M")
ParseNaiveTime(s) ==
    LET h == ScanNumber(s, 2)
    IN IF h.err THEN Err("invalid time") ELSE
       LET c == ScanLiteral(h.val.rest, ":")
       IN IF c.err THEN Err("invalid time") ELSE
          LET m == ScanNumber(c.val, 2)
          IN IF m.err \/ m.val.rest # <<>> THEN Err("invalid time")
             ELSE IF h.val.val > 23 \/ m.val.val > 59 THEN Err("invalid time")
             ELSE Ok([hour |-> h.val.val, minute |-> m.val.val])

\* NaiveDateTime::parse_from_str(s, "%Y-%m-%d %H:%M"), as wall-clock seconds
ParseNaiveDateTime(s) ==
    LET y == ScanNumber(s, 4)
    IN IF y.err THEN Err("invalid") ELSE
       LET c1 == ScanLiteral(y.val.rest, "-")
       IN IF c1.err THEN Err("invalid") ELSE
          LET mo == ScanNumber(c1.val, 2)
          IN IF mo.err THEN Err("invalid") ELSE
             LET c2 == ScanLiteral(mo.val.rest, "-")
             IN IF c2.err THEN Err("invalid") ELSE
                LET d == ScanNumber(c2.val, 2)
                IN IF d.err THEN Err("invalid") ELSE
                   LET t == ParseNaiveTime(trim_start(d.val.rest))
                   IN IF t.err \/ ~ValidYmd(y.val.val, mo.val.val, d.val.val)
                      THEN Err("invalid")
                      ELSE Ok(Naive(y.val.val, mo.val.val, d.val.val,
                                    t.val.hour, t.val.minute, 0))

\* cron::Schedule::from_str: the expressions of the model and their period in
\* seconds (every entry of such a schedule is a multiple of the period)
CronParse(expression) ==
    IF expression = "0 * * * * *" THEN Ok(60)
    ELSE IF expression = "*/30 * * * * *" THEN Ok(30)
    ELSE Err("invalid cron expression")

\* cron::Schedule::after(&after).next(): the first entry strictly after `after`
CronAfter(period, after) == Some(((after \div period) + 1) * period)

(***************************************************************************)
(* scheduler.rs                                                            *)
(***************************************************************************)
parse_hhmm(time) ==
    IF time = None THEN Err("time is required")
    ELSE ParseNaiveTime(Unwrap(time))

RECURSIVE FirstSingleMinute(_, _, _, _, _, _)
\* the `while minute < 59` loop of local_datetime
FirstSingleMinute(y, m, d, h, minute, wall) ==
    IF minute < 59
    THEN LET r == with_ymd_and_hms(y, m, d, h, minute + 1, 0)
         IN IF r.kind = "Single" THEN r.dt
            ELSE FirstSingleMinute(y, m, d, h, minute + 1, wall)
    ELSE wall

local_datetime(year, month, day, time, wall) ==
    LET r == with_ymd_and_hms(year, month, day, time.hour, time.minute, 0)
    IN IF r.kind \in {"Single", "Ambiguous"} THEN r.dt
       ELSE FirstSingleMinute(year, month, day, time.hour, time.minute, wall)

\* local_datetime(date.year(), date.month(), date.day(), time)
LocalOnDay(dn, time, wall) ==
    local_datetime(YearOf(dn), MonthOf(dn), DayOf(dn), time, wall)

next_daily(after, time, wall) ==
    LET date == date_naive(after)
        candidate == LocalOnDay(date, time, wall)
    IN IF candidate <= after THEN LocalOnDay(date + 1, time, wall) ELSE candidate

\* DateTime::with_second(0): None when the truncated wall-clock time is not
\* the time of exactly one instant, and then unwrap_or(ts) keeps ts
next_every_minute(after) ==
    LET ts == after + 60
        r == from_local_datetime(NaiveLocal(ts) - (NaiveLocal(ts) % 60))
    IN IF r.kind = "Single" THEN r.dt ELSE ts

num_to_weekday(v) == IF v \in 1..6 THEN v ELSE 7

RECURSIVE WeeklyScan(_, _, _, _, _, _)
\* the `for _ in 0..8` loop of next_weekly and the statement after it
WeeklyScan(after, time, target, date, k, wall) ==
    IF k = 8 THEN LocalOnDay(date, time, wall)
    ELSE IF WeekdayOf(date) = target /\ LocalOnDay(date, time, wall) > after
         THEN LocalOnDay(date, time, wall)
         ELSE WeeklyScan(after, time, target, date + 1, k + 1, wall)

next_weekly(after, time, weekday, wall) ==
    WeeklyScan(after, time, num_to_weekday(weekday), date_naive(after), 0, wall)

\* as days_in_month, with every month taken to have 31 days
DaysInMonthFlat(year, month) == 31

days_in_month(year, month) ==
    LET next_year == IF month = 12 THEN year + 1 ELSE year
        next_month == IF month = 12 THEN 1 ELSE month + 1
    IN DayNum(next_year, next_month, 1) - DayNum(year, month, 1)

Min(a, b) == IF a <= b THEN a ELSE b

RECURSIVE MonthlyScan(_, _, _, _, _, _, _)
\* the `for _ in 0..24` loop of next_monthly and the statement after it
MonthlyScan(after, time, day, year, month, k, wall) ==
    IF k = 24 THEN local_datetime(year, month, 1, time, wall)
    ELSE LET target_day == Min(day, days_in_month(year, month))
             candidate == local_datetime(year, month, target_day, time, wall)
         IN IF candidate > after THEN candidate
            ELSE IF month = 12
                 THEN MonthlyScan(after, time, day, year + 1, 1, k + 1, wall)
                 ELSE MonthlyScan(after, time, day, year, month + 1, k + 1, wall)

next_monthly(after, time, day, wall) ==
    LET dn == date_naive(after)
    IN MonthlyScan(after, time, day, YearOf(dn), MonthOf(dn), 0, wall)

\* as next_once, but an instant equal to the lower bound is returned
NextOnceInclusive(after, once_at) ==
    IF once_at = None THEN Err("once_at is required")
    ELSE LET naive == ParseNaiveDateTime(Unwrap(once_at))
         IN IF naive.err THEN Err("invalid once_at")
            ELSE LET r == from_local_datetime(naive.val)
                 IN IF r.kind = "None" THEN Ok(None)
                    ELSE IF r.dt >= after THEN Ok(Some(r.dt)) ELSE Ok(None)

\* the Repeat::Once arm of next_run_after
next_once(after, once_at) ==
    IF once_at = None THEN Err("once_at is required")
    ELSE LET naive == ParseNaiveDateTime(Unwrap(once_at))
         IN IF naive.err THEN Err("invalid once_at")
            ELSE LET r == from_local_datetime(naive.val)
                 IN IF r.kind = "None" THEN Ok(None)
                    ELSE IF r.dt > after THEN Ok(Some(r.dt)) ELSE Ok(None)

\* next_run_after(job, after); wall is what Local::now() returns when the
\* local-time fallback of local_datetime reads the clock
next_run_after(job, after, wall) ==
    IF ~job.enabled THEN Ok(None)
    ELSE IF job.kind = "cron"
    THEN LET schedule == CronParse(job.expression)
         IN IF schedule.err THEN Err("invalid cron expression")
            ELSE Ok(CronAfter(schedule.val, after))
    ELSE IF job.repeat = "daily"
    THEN LET t == parse_hhmm(job.time)
         IN IF t.err THEN t ELSE Ok(Some(next_daily(after, t.val, wall)))
    ELSE IF job.repeat = "weekly"
    THEN LET t == parse_hhmm(job.time)
         IN IF t.err THEN t
            ELSE IF job.weekday = None THEN Err("weekday is required")
            ELSE Ok(Some(next_weekly(after, t.val, Unwrap(job.weekday), wall)))
    ELSE IF job.repeat = "monthly"
    THEN LET t == parse_hhmm(job.time)
         IN IF t.err THEN t
            ELSE IF job.day = None THEN Err("day is required")
            ELSE Ok(Some(next_monthly(after, t.val, Unwrap(job.day), wall)))
    ELSE IF job.repeat = "everyminute"
    THEN Ok(Some(next_every_minute(after)))
    ELSE next_once(after, job.once_at)

(***************************************************************************)
(* config.rs                                                               *)
(***************************************************************************)
\* str::parse::<u32>: an optional '+', then one or more digits and nothing else
RECURSIVE AllDigits(_)
AllDigits(s) == s = <<>> \/ (IsDigit(Head(s)) /\ AllDigits(Tail(s)))

RECURSIVE DigitsVal(_, _)
DigitsVal(s, acc) ==
    IF s = <<>> THEN acc ELSE DigitsVal(Tail(s), acc * 10 + DigitVal(Head(s)))

ParseU32(s) ==
    LET body == IF s # <<>> /\ Head(s) = "+" THEN Tail(s) ELSE s
    IN IF body = <<>> \/ ~AllDigits(body) THEN Err("invalid digit")
       ELSE Ok(DigitsVal(body, 0))

\* time.split(':').collect()
ColonAt(s) == {k \in 1..Len(s) : s[k] = ":"}

validate_hhmm(time) ==
    IF time = None THEN Err("time is required")
    ELSE LET s == Unwrap(time)
         IN IF Cardinality(ColonAt(s)) # 1 THEN Err("simple.time must be HH:MM")
            ELSE LET k == Unwrap(ColonAt(s))
                     hour == ParseU32(SubSeq(s, 1, k - 1))
                     minute == ParseU32(SubSeq(s, k + 1, Len(s)))
                 IN IF hour.err THEN Err("invalid hour")
                    ELSE IF minute.err THEN Err("invalid minute")
                    ELSE IF hour.val > 23 \/ minute.val > 59
                         THEN Err("simple.time out of range")
                    ELSE Ok(TRUE)

validate_job(job) ==
    IF job.id = "" THEN Err("job.id is required")
    ELSE IF job.name = "" THEN Err("job.name is required")
    ELSE IF job.program = "" THEN Err("command.program is required")
    ELSE IF job.kind = "cron"
    THEN (IF CronParse(job.expression).err THEN Err("invalid cron expression") ELSE Ok(TRUE))
    ELSE IF job.repeat = "daily" THEN validate_hhmm(job.time)
    ELSE IF job.repeat = "weekly"
    THEN (IF job.weekday = None THEN Err("weekday is required for weekly")
          ELSE IF Unwrap(job.weekday) \notin 1..7 THEN Err("weekday must be 1..=7")
          ELSE validate_hhmm(job.time))
    ELSE IF job.repeat = "monthly"
    THEN (IF job.day = None THEN Err("day is required for monthly")
          ELSE IF Unwrap(job.day) \notin 1..31 THEN Err("day must be 1..=31")
          ELSE validate_hhmm(job.time))
    ELSE IF job.repeat = "everyminute"
    THEN (IF job.time # None THEN Err("time is not allowed for everyminute") ELSE Ok(TRUE))
    ELSE IF job.once_at = None THEN Err("once_at is required for once")
    ELSE IF ParseNaiveDateTime(Unwrap(job.once_at)).err THEN Err("invalid once_at format")
    ELSE Ok(TRUE)

(***************************************************************************)
(* model.rs: JobConfig values                                              *)
(***************************************************************************)
\* JobConfig with a simple schedule; timeout_seconds defaults to 3600
SimpleJob(id, enabled, repeat, time, weekday, day, once_at) ==
    [id |-> id, name |-> "job", enabled |-> enabled, kind |-> "simple",
     expression |-> "", repeat |-> repeat, time |-> time, weekday |-> weekday,
     day |-> day, once_at |-> once_at, program |-> "true", timeout_seconds |-> 3600]

\* JobConfig with a cron schedule
CronJob(id, enabled, expression) ==
    [id |-> id, name |-> "job", enabled |-> enabled, kind |-> "cron",
     expression |-> expression, repeat |-> "", time |-> None, weekday |-> None,
     day |-> None, once_at |-> None, program |-> "true", timeout_seconds |-> 3600]

\* the texts of the time and once_at fields used below
T0230 == <<"0", "2", ":", "3", "0">>
T0130 == <<"0", "1", ":", "3", "0">>
T0900 == <<"0", "9", ":", "0", "0">>
T0000 == <<"0", "0", ":", "0", "0">>
D20240309 == <<"2", "0", "2", "4", "-", "0", "3", "-", "0", "9", " ">>
D20240310 == <<"2", "0", "2", "4", "-", "0", "3", "-", "1", "0", " ">>
D20241103 == <<"2", "0", "2", "4", "-", "1", "1", "-", "0", "3", " ">>
\* time fields that str::parse::<u32> reads as 9 and 0
TPlus0900 == <<"+", "9", ":", "0", "0">>
T00900 == <<"0", "0", "9", ":", "0", "0">>

(***************************************************************************)
(* config.rs: load_jobs.  A directory is a set of files; a file has a      *)
(* name, whether its extension is json, whether its text deserialises to a *)
(* JobConfig, and that JobConfig.                                          *)
(***************************************************************************)
File(name, json, parses, job) ==
    [file |-> name, json |-> json, parses |-> parses, job |-> job]

\* the order of String::cmp on the ids of the model
IdOrder == <<"a", "b", "c">>
IdRank(id) == CHOOSE k \in 1..Len(IdOrder) : IdOrder[k] = id

Range(seq) == {seq[k] : k \in 1..Len(seq)}
Ids(js) == {js[k].id : k \in 1..Len(js)}

RECURSIVE SortById(_)
\* jobs.sort_by(|a, b| a.id.cmp(&b.id)) on jobs with distinct ids
SortById(S) ==
    IF S = {} THEN <<>>
    ELSE LET first == CHOOSE j \in S : \A k \in S : IdRank(j.id) <= IdRank(k.id)
         IN <<first>> \o SortById(S \ {first})

\* as load_jobs, but the files that do not load are skipped
LoadJobsPartial(dir) ==
    LET good == {f \in dir : f.json /\ f.parses /\ ~validate_job(f.job).err}
        first == {f \in good : \A g \in good : g.job.id = f.job.id => g.file = f.file}
    IN Ok(SortById({f.job : f \in first}))

load_jobs(dir) ==
    LET files == {f \in dir : f.json}
    IN IF \E f \in files : ~f.parses THEN Err("parse job file")
       ELSE IF \E f \in files : validate_job(f.job).err THEN Err("invalid job")
       ELSE IF \E f, g \in files : f.file # g.file /\ f.job.id = g.job.id
            THEN Err("duplicate job id")
       ELSE Ok(SortById({f.job : f \in files}))

(***************************************************************************)
(* daemon.rs: the pure parts of the control loop                           *)
(***************************************************************************)
JobById(js, id) == js[CHOOSE k \in 1..Len(js) : js[k].id = id]

\* as InstallJobs, but the jobs that are no longer on disk stay installed
InstallMerged(old, loaded) ==
    SortById(Range(loaded) \cup {j \in Range(old) : j.id \notin Ids(loaded)})

\* `jobs = v;` (line 65): the loaded set replaces the installed one
InstallJobs(old, loaded) == loaded

\* as compute_next_runs, with entries for the enabled jobs only
ComputeNextRunsEnabled(js, t) ==
    [id \in {js[k].id : k \in {m \in 1..Len(js) : js[m].enabled}} |->
        OkFlatten(next_run_after(JobById(js, id), t, t))]

\* compute_next_runs(&jobs), with Local::now() = t
compute_next_runs(js, t) ==
    [id \in Ids(js) |-> OkFlatten(next_run_after(JobById(js, id), t, t))]

\* drain_watcher: the events are consumed; only Ok events set `changed`
drain_watcher(evs) == \E k \in 1..Len(evs) : evs[k] = "ok"

\* as reload_attempts, with one load per change event
ReloadPerEvent(evs) == Cardinality({k \in 1..Len(evs) : evs[k] = "ok"})

\* lines 61-63: the number of load_jobs calls a tick makes for the events
\* it drained
reload_attempts(evs) == IF drain_watcher(evs) THEN 1 ELSE 0

\* as FindEnabled, without the test of the enabled flag
FindAny(js, job_id) ==
    LET hit == {k \in 1..Len(js) : js[k].id = job_id}
    IN IF hit = {} THEN None ELSE Some(js[CHOOSE k \in hit : \A m \in hit : k <= m])

\* jobs.iter().find(|j| j.id == job_id && j.enabled)
FindEnabled(js, job_id) ==
    LET hit == {k \in 1..Len(js) : js[k].id = job_id /\ js[k].enabled}
    IN IF hit = {} THEN None ELSE Some(js[CHOOSE k \in hit : \A m \in hit : k <= m])

\* next_runs.get(&job.id).and_then(|t| *t) is Some(ts) with ts <= now
should_run(nr, id, t) == id \in DOMAIN nr /\ \E ts \in nr[id] : ts <= t

\* a supervision task as spawn_job creates it
NewExec(job, trigger) ==
    [job |-> job, trigger |-> trigger, st |-> "spawned", status |-> "",
     fresh |-> TRUE, harvested |-> "no"]

\* the job of execution e has an execution in ex that has not ended
InFlight(ex, e) ==
    \E k \in 1..Len(ex) : ex[k].job.id = e.job.id /\ ex[k].st = "spawned"

RECURSIVE SpawnJobIfIdle(_, _)
\* as spawn_job, but a job with an execution in flight is not started again
SpawnJobIfIdle(ex, new) ==
    IF new = <<>> THEN ex
    ELSE SpawnJobIfIdle(IF InFlight(ex, Head(new)) THEN ex ELSE Append(ex, Head(new)),
                        Tail(new))

\* spawn_job, called once for each dispatch of new in order: tokio::spawn
\* starts a task for the cloned job, whatever tasks are already running
spawn_job(ex, new) == ex \o new

RECURSIVE ManualDispatch(_, _)
\* the loop over collect_requests' result (lines 78-82), in the order read
ManualDispatch(js, reqs) ==
    IF reqs = <<>> THEN <<>>
    ELSE LET job == FindEnabled(js, Head(reqs))
         IN (IF job = None THEN <<>> ELSE <<NewExec(Unwrap(job), "manual")>>)
            \o ManualDispatch(js, Tail(reqs))

\* as ManualNextRuns, with a manual dispatch treated like a schedule
\* dispatch: the job's next-fire time is computed anew
ManualNextRunsAsFired(js, nr, reqs, t) ==
    [id \in DOMAIN nr |->
        IF id \in Range(reqs) /\ FindEnabled(js, id) # None
        THEN OkFlatten(next_run_after(JobById(js, id), t + 1, t))
        ELSE nr[id]]

\* the next-fire map after the loop over the requests: the loop calls
\* spawn_job and nothing else, so the map is as it was
ManualNextRuns(js, nr, reqs, t) == nr

RECURSIVE ScheduleDispatchStrict(_, _, _)
\* as ScheduleDispatch, but a job fires only when its time is strictly past
ScheduleDispatchStrict(js, nr, t) ==
    IF js = <<>> THEN <<>>
    ELSE (IF should_run(nr, Head(js).id, t - 1)
          THEN <<NewExec(Head(js), "schedule")>> ELSE <<>>)
         \o ScheduleDispatchStrict(Tail(js), nr, t)

RECURSIVE ScheduleDispatch(_, _, _)
\* the spawn_job calls of the loop over jobs (lines 85-95)
ScheduleDispatch(js, nr, t) ==
    IF js = <<>> THEN <<>>
    ELSE (IF should_run(nr, Head(js).id, t)
          THEN <<NewExec(Head(js), "schedule")>> ELSE <<>>)
         \o ScheduleDispatch(Tail(js), nr, t)

\* as FireNextRuns, without the insert: a job that fired keeps its time
FireNextRunsKeep(js, nr, t) == nr

\* the next_runs.insert calls of the same loop; the clock still reads t
FireNextRuns(js, nr, t) ==
    [id \in DOMAIN nr |->
        IF id \in Ids(js) /\ should_run(nr, id, t)
        THEN OkFlatten(next_run_after(JobById(js, id), t + 1, t))
        ELSE nr[id]]

\* the capacity of the recent-runs ring
RingCap == 100

\* as PushRing, but the overflow is cut off at the wrong end
PushRingDropNewest(rr, record) ==
    LET pushed == Append(rr, record)
    IN IF Len(pushed) > RingCap THEN SubSeq(pushed, 1, RingCap) ELSE pushed

\* recent_runs.push(record) and the drain that follows (lines 99-103)
PushRing(rr, record) ==
    LET pushed == Append(rr, record)
    IN IF Len(pushed) > RingCap
       THEN SubSeq(pushed, Len(pushed) - RingCap + 1, Len(pushed))
       ELSE pushed

\* The loop over the records received takes them one by one, in channel
\* order; the two operators below go through the first half of the records
\* and then through the second half, down to single records (a channel at
\* its capacity holds 256 of them).  The test on the outcome of the first
\* half, which never fails, has that outcome computed before the second half
\* is begun.
RECURSIVE HarvestRing(_, _)
\* recent_runs.push(record), and the cut, for every record received
HarvestRing(rr, rx) ==
    IF rx = <<>> THEN rr
    ELSE IF Len(rx) = 1 THEN PushRing(rr, rx[1])
    ELSE LET h == Len(rx) \div 2
             first == HarvestRing(rr, SubSeq(rx, 1, h))
         IN IF first = <<>> THEN first
            ELSE HarvestRing(first, SubSeq(rx, h + 1, Len(rx)))

RECURSIVE HarvestLastKeepFirst(_, _)
\* as HarvestLast, but a job that has a record keeps it
HarvestLastKeepFirst(lr, rx) ==
    IF rx = <<>> THEN lr
    ELSE IF Len(rx) = 1
    THEN [id \in DOMAIN lr \cup {rx[1].job_id} |->
             IF id \in DOMAIN lr /\ lr[id] # None THEN lr[id]
             ELSE IF id = rx[1].job_id THEN Some(rx[1]) ELSE lr[id]]
    ELSE LET h == Len(rx) \div 2
             first == HarvestLastKeepFirst(lr, SubSeq(rx, 1, h))
         IN IF DOMAIN first = {} THEN first
            ELSE HarvestLastKeepFirst(first, SubSeq(rx, h + 1, Len(rx)))

RECURSIVE HarvestLast(_, _)
\* last_result.insert(record.job_id, record) for every record received
HarvestLast(lr, rx) ==
    IF rx = <<>> THEN lr
    ELSE IF Len(rx) = 1
    THEN [id \in DOMAIN lr \cup {rx[1].job_id} |->
             IF id = rx[1].job_id THEN Some(rx[1]) ELSE lr[id]]
    ELSE LET h == Len(rx) \div 2
             first == HarvestLast(lr, SubSeq(rx, 1, h))
         IN IF DOMAIN first = {} THEN first
            ELSE HarvestLast(first, SubSeq(rx, h + 1, Len(rx)))

\* the capacity of the completion channel
ChanCap == 256

\* as send_ready, for a channel without a bound
SendAlwaysReady(rx) == TRUE

\* tx.send(record).await completes only while the channel holds fewer than
\* its capacity; until then the sending task waits
send_ready(rx) == Len(rx) < ChanCap

\* the ExecutionRecord execute_job returns for run id k
Record(k, e) ==
    [run_id |-> k, job_id |-> e.job.id, trigger |-> e.trigger, status |-> e.status]

\* as execute_status, with the timeout arm reporting a failure
ExecuteStatusNoTimeout(outcome) ==
    IF outcome = "exit_success" THEN "success" ELSE "failed"

\* the status execute_job derives from the outcome of
\* tokio::time::timeout(timeout, child.wait())
execute_status(outcome) ==
    IF outcome = "exit_success" THEN "success"
    ELSE IF outcome = "exit_failure" THEN "failed"
    ELSE IF outcome = "wait_error" THEN "failed"
    ELSE "timeout"

\* as Snapshot, with the reload error left out of the DaemonState
SnapshotNoError(js, nr, lr, rr, err, t) ==
    [running |-> TRUE, last_reload_error |-> None,
     jobs |-> [k \in 1..Len(js) |-> [id |-> js[k].id, enabled |-> js[k].enabled]]]

\* the JobView list and DaemonState write_state serialises
Snapshot(js, nr, lr, rr, err, t) ==
    [running |-> TRUE, last_reload_error |-> err,
     jobs |-> [k \in 1..Len(js) |-> [id |-> js[k].id, enabled |-> js[k].enabled]]]

(***************************************************************************)
(* The job files and directories of the model                              *)
(***************************************************************************)
JA == SimpleJob("a", TRUE, "everyminute", None, None, None, None)
JBon == [SimpleJob("b", TRUE, "daily", Some(T0230), None, None, None)
            EXCEPT !.program = "sleep", !.timeout_seconds = 1]
JBoff == [JBon EXCEPT !.enabled = FALSE]
JNoName == [JA EXCEPT !.name = ""]

Notes == File("notes.txt", FALSE, FALSE, JA)
DirAB == {File("a.json", TRUE, TRUE, JA), File("b.json", TRUE, TRUE, JBoff), Notes}
DirA == {File("a.json", TRUE, TRUE, JA)}
DirABon == {File("a.json", TRUE, TRUE, JA), File("b.json", TRUE, TRUE, JBon)}
DirDup == {File("a.json", TRUE, TRUE, JA), File("c.json", TRUE, TRUE, JA)}
DirMalformed == {File("a.json", TRUE, TRUE, JA), File("b.json", TRUE, FALSE, JBon)}
DirInvalid == {File("a.json", TRUE, TRUE, JNoName)}

Dirs == {DirAB, DirA, DirABon, DirDup, DirMalformed, DirInvalid}
InitDirs == {DirABon, DirMalformed}

\* the payloads of request files: a job id, or text that is no request
Payloads == {"b", "garbage"}

\* the daemon starts one second before 2024-03-09 02:30:00
StartClock == Naive(2024, 3, 9, 2, 29, 59)

\* bounds of the model
MaxClock == 2
MaxExecs == 2
MaxEdits == 1
MaxRequests == 1

(***************************************************************************)
(* The environment of the daemon                                           *)
(***************************************************************************)
Running == pc \notin {"boot", "exited_ok", "exited_err"}

ClockAdvance ==
    /\ clock < StartClock + MaxClock
    /\ clock' = clock + 1
    /\ UNCHANGED <<jobs_dir, events, requests_dir, fault, state_file>>
    /\ UNCHANGED <<dvars, hvars, svars, lvars, qvars, xvars>>

\* a user rewrites the jobs directory; the watcher, once set up, reports it
EditJobs ==
    /\ budget.edits > 0
    /\ \E d \in Dirs \ {jobs_dir} : jobs_dir' = d
    /\ events' = IF Running THEN Append(events, "ok") ELSE events
    /\ budget' = [budget EXCEPT !.edits = @ - 1]
    /\ UNCHANGED <<clock, requests_dir, fault, state_file>>
    /\ UNCHANGED <<dvars, tick, removed, rsent, svars, lvars, qvars, xvars>>

\* the watcher delivers an error instead of an event
WatcherError ==
    /\ budget.edits > 0
    /\ Running
    /\ events' = Append(events, "err")
    /\ budget' = [budget EXCEPT !.edits = @ - 1]
    /\ UNCHANGED <<clock, jobs_dir, requests_dir, fault, state_file>>
    /\ UNCHANGED <<dvars, tick, removed, rsent, svars, lvars, qvars, xvars>>

\* submit_run_request: a client drops a request file, here in one step
\* (SpecReq takes the two halves of std::fs::write apart)
SubmitRequest ==
    /\ budget.requests > 0
    /\ \E p \in Payloads :
         requests_dir' = requests_dir \cup {[req |-> budget.requests, payload |-> p]}
    /\ budget' = [budget EXCEPT !.requests = @ - 1]
    /\ UNCHANGED <<clock, jobs_dir, events, fault, state_file>>
    /\ UNCHANGED <<dvars, tick, removed, rsent, svars, lvars, qvars, xvars>>

\* a part of the file system starts to fail (logs directory not writable,
\* state file not writable, requests directory not readable)
FsFault ==
    /\ fault = "none"
    /\ fault' \in {"logs", "state", "requests"}
    /\ UNCHANGED <<clock, jobs_dir, events, requests_dir, state_file>>
    /\ UNCHANGED <<dvars, hvars, svars, lvars, qvars, xvars>>

(***************************************************************************)
(* run_daemon, from line 32 on                                             *)
(***************************************************************************)
NoTick ==
    [reload |-> "none", added |-> {}, reqs |-> {}, fired |-> FALSE,
     drained |-> 0, loads |-> 0]

\* as tick_order, with the schedules fired before the requests are read
TickOrderFireFirst(pos) ==
    IF pos = "select" THEN "fire"
    ELSE IF pos = "fire" THEN "requests"
    ELSE "harvest"

\* the order of the statements of the ticker branch (lines 61-104): reload,
\* then the manual requests, then the schedules, then the harvest
tick_order(pos) ==
    IF pos = "select" THEN "requests"
    ELSE IF pos = "requests" THEN "fire"
    ELSE "harvest"

\* lines 32-56: the start line, the initial load, the channels, the watcher
Startup ==
    /\ pc = "boot"
    /\ IF fault = "logs"
       THEN /\ pc' = "exited_err"
            /\ UNCHANGED <<jobs, next_runs, last_reload_error>>
       ELSE LET r == load_jobs(jobs_dir)
                v == IF r.err THEN <<>> ELSE r.val
            IN /\ jobs' = v
               /\ next_runs' = compute_next_runs(v, clock)
               /\ last_reload_error' = IF r.err THEN Some("initial load failed") ELSE None
               /\ pc' = "select"
    /\ UNCHANGED <<last_result, recent_runs, rx_run, now, execs>>
    /\ UNCHANGED <<evars, hvars, svars, lvars, qvars, xvars>>

\* lines 61-76: drain the watcher and, on a change, reload
TickReload ==
    /\ pc = "select"
    /\ events' = <<>>
    /\ IF reload_attempts(events) > 0
       THEN LET r == load_jobs(jobs_dir)
            IN /\ IF r.err
                  THEN /\ last_reload_error' = Some("reload failed")
                       /\ tick' = [tick EXCEPT !.reload = "failed",
                                               !.drained = Len(events),
                                               !.loads = reload_attempts(events)]
                       /\ UNCHANGED <<jobs, next_runs, removed>>
                  ELSE /\ jobs' = InstallJobs(jobs, r.val)
                       /\ next_runs' = compute_next_runs(jobs', clock)
                       /\ last_reload_error' = None
                       /\ tick' = [tick EXCEPT !.reload = "ok",
                                               !.added = Ids(r.val) \ Ids(jobs),
                                               !.drained = Len(events),
                                               !.loads = reload_attempts(events)]
                       /\ removed' = (removed \cup (Ids(jobs) \ Ids(r.val))) \ Ids(r.val)
               /\ pc' = IF fault = "logs" THEN "exited_err" ELSE tick_order(pc)
       ELSE /\ pc' = tick_order(pc)
            /\ tick' = [tick EXCEPT !.drained = Len(events)]
            /\ UNCHANGED <<jobs, next_runs, last_reload_error, removed>>
    /\ UNCHANGED <<last_result, recent_runs, rx_run, now, execs>>
    /\ UNCHANGED <<clock, jobs_dir, requests_dir, fault, state_file>>
    /\ UNCHANGED <<budget, rsent, svars, lvars, qvars, xvars>>

\* line 184: read_to_string fails on a file that is not valid UTF-8
read_to_string_fails(payload) == payload = "binary"

\* line 189: serde_json::from_str::<Req>(&raw).ok(); an empty or truncated
\* file and text that is no request give None
parse_req(payload) ==
    IF payload \in {"", "garbage"} THEN None ELSE Some(payload)

\* the job ids collect_requests returns: the files whose text deserialises,
\* in the order read (here by file number)
RECURSIVE ReadRequests(_)
ReadRequests(files) ==
    IF files = {} THEN <<>>
    ELSE LET f == CHOOSE g \in files : \A h \in files : g.req >= h.req
         IN (IF parse_req(f.payload) # None THEN <<Unwrap(parse_req(f.payload))>> ELSE <<>>)
            \o ReadRequests(files \ {f})

\* lines 78-82: collect the requests, delete their files, dispatch
TickRequests ==
    /\ pc = "requests"
    /\ IF fault = "requests"
       THEN /\ pc' = "exited_err"
            /\ UNCHANGED <<requests_dir, execs, tick, next_runs>>
       ELSE IF \E f \in requests_dir : read_to_string_fails(f.payload)
       THEN \* the files read before the unreadable one are gone; the `?`
            \* of line 184 returns the error and nothing is dispatched
            /\ pc' = "exited_err"
            /\ \E S \in SUBSET {f \in requests_dir : ~read_to_string_fails(f.payload)} :
                 requests_dir' = requests_dir \ S
            /\ UNCHANGED <<execs, tick, next_runs>>
       ELSE LET reqs == ReadRequests(requests_dir)
                new == ManualDispatch(jobs, reqs)
            IN /\ Len(execs) + Len(new) <= MaxExecs
               /\ requests_dir' = {}
               /\ execs' = spawn_job(execs, new)
               /\ next_runs' = ManualNextRuns(jobs, next_runs, reqs, clock)
               /\ tick' = [tick EXCEPT !.reqs = Range(reqs)]
               /\ pc' = tick_order(pc)
    /\ UNCHANGED <<jobs, last_result, recent_runs, last_reload_error, rx_run, now>>
    /\ UNCHANGED <<clock, jobs_dir, events, fault, state_file>>
    /\ UNCHANGED <<removed, budget, rsent, svars, lvars, qvars, xvars>>

\* lines 84-95: fire the due schedules
TickFire ==
    /\ pc = "fire"
    /\ LET new == ScheduleDispatch(jobs, next_runs, clock)
       IN /\ Len(execs) + Len(new) <= MaxExecs
          /\ execs' = spawn_job(execs, new)
    /\ now' = clock
    /\ next_runs' = FireNextRuns(jobs, next_runs, clock)
    /\ tick' = [tick EXCEPT !.fired = TRUE]
    /\ fired_at' = [id \in DOMAIN fired_at \cup Ids(jobs) |->
                       IF id \in Ids(jobs) /\ should_run(next_runs, id, clock)
                       THEN Some(clock)
                       ELSE IF id \in DOMAIN fired_at THEN fired_at[id] ELSE None]
    /\ pc' = tick_order(pc)
    /\ UNCHANGED <<jobs, last_result, recent_runs, last_reload_error, rx_run>>
    /\ UNCHANGED <<evars, removed, budget, rsent, svars, lvars, creq, ctrl_c, xvars>>

\* lines 97-104: drain the completion channel
Harvest ==
    /\ last_result' = HarvestLast(last_result, rx_run)
    /\ recent_runs' = HarvestRing(recent_runs, rx_run)
    /\ rx_run' = <<>>
    /\ execs' = [k \in DOMAIN execs |->
                   IF \E i \in 1..Len(rx_run) : rx_run[i].run_id = k
                   THEN [execs[k] EXCEPT !.harvested =
                            IF execs[k].fresh THEN "same tick" ELSE "later tick"]
                   ELSE execs[k]]

TickHarvest ==
    /\ pc = "harvest"
    /\ Harvest
    /\ pc' = "publish"
    /\ UNCHANGED <<jobs, next_runs, last_reload_error, now>>
    /\ UNCHANGED <<evars, hvars, svars, lvars, qvars, xvars>>

\* lines 106-114: publish the snapshot; the tick ends
TickPublish ==
    /\ pc = "publish"
    /\ IF fault = "state"
       THEN /\ pc' = "exited_err"
            /\ UNCHANGED <<state_file, execs, tick>>
       ELSE /\ state_file' = Some(Snapshot(jobs, next_runs, last_result, recent_runs,
                                           last_reload_error, clock))
            /\ execs' = [k \in DOMAIN execs |-> [execs[k] EXCEPT !.fresh = FALSE]]
            /\ tick' = NoTick
            /\ pc' = "select"
    /\ UNCHANGED <<jobs, next_runs, last_result, recent_runs, last_reload_error,
                   rx_run, now>>
    /\ UNCHANGED <<clock, jobs_dir, events, requests_dir, fault>>
    /\ UNCHANGED <<removed, budget, rsent, svars, lvars, qvars, xvars>>

\* lines 116-118: the hourly log-retention sweep
CleanupTick ==
    /\ pc = "select"
    /\ pc' = IF fault = "logs" THEN "exited_err" ELSE pc
    /\ UNCHANGED <<jobs, next_runs, last_result, recent_runs, last_reload_error,
                   rx_run, now, execs>>
    /\ UNCHANGED <<evars, hvars, svars, lvars, qvars, xvars>>

\* lines 119-127: the shutdown signal ends the loop; the stop line is logged
\* with `?`, and run_daemon returns
Shutdown ==
    /\ pc = "select"
    /\ ctrl_c' = TRUE
    /\ pc' = IF fault = "logs" THEN "exited_err" ELSE "exited_ok"
    /\ UNCHANGED <<jobs, next_runs, last_result, recent_runs, last_reload_error,
                   rx_run, now, execs>>
    /\ UNCHANGED <<evars, hvars, svars, lvars, creq, fired_at, xvars>>

(***************************************************************************)
(* spawn_job / execute_job: one supervision task per dispatch              *)
(***************************************************************************)
\* how the child of a job ends: decided by the program it runs
child_outcome(job) ==
    IF job.program = "true" THEN "exit_success"
    ELSE IF job.program = "false" THEN "exit_failure"
    ELSE "timeout"

\* lines 198-270: the task logs the start line, spawns the child, waits for
\* it or for the timeout, logs the end line and sends the record; an error
\* of execute_job (a log line not written, a failed spawn) ends the task
\* without a record
ExecRun(k) ==
    /\ Running
    /\ execs[k].st = "spawned"
    /\ IF fault = "logs" \/ execs[k].job.program = "nosuch"
       THEN /\ execs' = [execs EXCEPT ![k].st = "dead"]
            /\ UNCHANGED rx_run
       ELSE LET e == [execs[k] EXCEPT !.st = "done",
                                      !.status = execute_status(child_outcome(execs[k].job))]
            IN /\ send_ready(rx_run)
               /\ execs' = [execs EXCEPT ![k] = e]
               /\ rx_run' = Append(rx_run, Record(k, e))
    /\ UNCHANGED <<pc, jobs, next_runs, last_result, recent_runs, last_reload_error, now>>
    /\ UNCHANGED <<evars, hvars, svars, lvars, qvars, xvars>>

(***************************************************************************)
(* The daemon and its environment                                          *)
(***************************************************************************)
EmptyMap == [id \in {} |-> None]

\* no client is looked at in detail
ReqIdle == creq = <<>>

\* no supervision task is looked at in detail
ExecIdle ==
    /\ xjob = [file_timeout |-> None, job |-> JA]
    /\ xpc = "idle"
    /\ xchild = [st |-> "none"]
    /\ xrec = None
    /\ xlog = <<>>

SchedIdle ==
    /\ sjob = JA /\ safter = 0 /\ swall = 0 /\ sres = [done |-> FALSE]
    /\ load_out = [done |-> FALSE]

LockIdle ==
    /\ pid_file = None /\ lpc = <<>> /\ lseen = <<>> /\ lres = <<>> /\ lcmd = [out |-> "", exit |-> 0]

DaemonInit ==
    /\ clock = StartClock
    /\ events = <<>>
    /\ requests_dir = {}
    /\ fault = "none"
    /\ state_file = None
    /\ pc = "boot"
    /\ jobs = <<>>
    /\ next_runs = EmptyMap
    /\ last_result = EmptyMap
    /\ recent_runs = <<>>
    /\ last_reload_error = None
    /\ rx_run = <<>>
    /\ now = StartClock
    /\ execs = <<>>
    /\ tick = NoTick
    /\ removed = {}
    /\ rsent = 0
    /\ fired_at = EmptyMap
    /\ ctrl_c = FALSE
    /\ ExecIdle

Init ==
    /\ DaemonInit
    /\ jobs_dir \in InitDirs
    /\ budget = [edits |-> MaxEdits, requests |-> MaxRequests]
    /\ SchedIdle
    /\ ReqIdle
    /\ LockIdle

Next ==
    \/ ClockAdvance
    \/ EditJobs
    \/ WatcherError
    \/ SubmitRequest
    \/ Startup
    \/ TickReload
    \/ TickRequests
    \/ TickFire
    \/ TickHarvest
    \/ TickPublish
    \/ CleanupTick
    \/ Shutdown
    \/ \E k \in 1..Len(execs) : ExecRun(k)

Spec == Init /\ [][Next]_vars

\* the same daemon in an environment whose file system can start to fail
FaultNext == Next \/ FsFault

SpecFault == Init /\ [][FaultNext]_vars

(***************************************************************************)
(* Properties of the control loop                                          *)
(***************************************************************************)
HalfPastTwo == Naive(2024, 3, 9, 2, 30, 0)
Installed(id) == \E k \in 1..Len(jobs) : jobs[k].id = id
InstalledDisabled(id) == \E k \in 1..Len(jobs) : jobs[k].id = id /\ ~jobs[k].enabled
Dispatched(id) == \E k \in 1..Len(execs) : execs[k].job.id = id

\* C1: a disabled job has no next-fire time and is never dispatched, neither
\* by the schedule-firing step nor by a manual request naming it.
C1_DisabledNeverRuns ==
    /\ \A k \in 1..Len(jobs) : ~jobs[k].enabled => next_runs[jobs[k].id] = None
    /\ \A k \in 1..Len(execs) : execs[k].job.enabled

\* a tick read a request naming the disabled job b at a time its schedule
\* would be due, went through both dispatch steps, and b never ran
C1_Witness ==
    /\ pc = "harvest"
    /\ InstalledDisabled("b")
    /\ "b" \in tick.reqs
    /\ clock >= HalfPastTwo
    /\ ~Dispatched("b")

\* C2 (as claimed): a failed reload leaves the job set and the next-fire map
\* as they were, records last_reload_error, and the tick goes on; a
\* successful reload installs the loaded set and recomputes every next-fire
\* time.
C2_ReloadOutcome ==
    /\ [][(tick.reload = "none" /\ tick'.reload = "failed")
            => (/\ jobs' = jobs
                /\ next_runs' = next_runs
                /\ last_reload_error' # None
                /\ pc' = "requests")]_vars
    /\ [][(tick.reload = "none" /\ tick'.reload = "ok")
            => (/\ jobs' = load_jobs(jobs_dir).val
                /\ next_runs' = compute_next_runs(jobs', clock)
                /\ last_reload_error' = None)]_vars

\* C8: a job that a successful reload removed is not dispatched in that tick
\* or in a later one, until a reload adds it back.
C8_RemovedNeverRuns ==
    \A k \in 1..Len(execs) : execs[k].fresh => execs[k].job.id \notin removed

\* the reload of this tick removed b, the tick read a request naming b at a
\* time b's old schedule was due, and b was not dispatched
C8_Witness ==
    /\ pc = "harvest"
    /\ tick.reload = "ok"
    /\ "b" \in removed
    /\ "b" \in tick.reqs
    /\ clock >= HalfPastTwo
    /\ ~Dispatched("b")

\* C9: a job added by the successful reload of a tick is dispatched by the
\* schedule-firing step of the same tick when its next-fire time is due then.
C9_AddedJobFiresSameTick ==
    [][(pc = "fire" /\ pc' = "harvest")
        => \A id \in tick.added :
              should_run(next_runs, id, clock)
              => \E k \in (Len(execs) + 1)..Len(execs') :
                    execs'[k].job.id = id /\ execs'[k].trigger = "schedule"]_vars

\* a job added by this tick's reload was schedule-dispatched in this tick
C9_Witness ==
    /\ pc = "harvest"
    /\ tick.reload = "ok"
    /\ \E k \in 1..Len(execs) :
          /\ execs[k].fresh
          /\ execs[k].trigger = "schedule"
          /\ execs[k].job.id \in tick.added

\* C10 (as claimed): no completion record is harvested in the tick that
\* dispatched its execution.
C10_NoSameTickHarvest ==
    \A k \in 1..Len(execs) : execs[k].harvested # "same tick"

\* C12 (as claimed): inside the control loop a failure to publish the state,
\* to read the requests directory or to write the log line of a reload does
\* not end the daemon: the tick goes on to its next step.
C12_OnlyShutdownEndsLoop ==
    [][/\ (pc = "publish" => pc' # "exited_err")
       /\ (pc = "requests" => pc' # "exited_err")
       /\ ((pc = "select" /\ tick.reload = "none" /\ tick'.reload # "none")
              => pc' # "exited_err")]_vars

\* C13 (as claimed): a tick that drains an error of the watcher attempts a
\* reload.
C13_WatcherErrorReloads ==
    [][(pc = "select" /\ pc' = "requests" /\ \E k \in 1..Len(events) : events[k] = "err")
          => tick'.reload # "none"]_vars

\* the daemon under a burst of watcher notifications, with no client
MaxWatchEdits == 2

WatchInit ==
    /\ DaemonInit
    /\ jobs_dir \in InitDirs
    /\ budget = [edits |-> MaxWatchEdits, requests |-> 0]
    /\ SchedIdle
    /\ ReqIdle
    /\ LockIdle

WatchNext ==
    \/ ClockAdvance
    \/ EditJobs
    \/ WatcherError
    \/ Startup
    \/ TickReload
    \/ TickRequests
    \/ TickFire
    \/ TickHarvest
    \/ TickPublish

SpecWatch == WatchInit /\ [][WatchNext]_vars

\* C14: the reload step of a tick drains every pending notification and
\* calls load_jobs at most once; a tick that drained no notification makes
\* no reload, and as long as a tick has made no reload the job set and
\* last_reload_error stay as they are and the next-fire map changes only at
\* the jobs the firing step dispatches.
C14_OneReloadPerTick ==
    /\ [][(pc = "select" /\ pc' = "requests")
            => (/\ events' = <<>>
                /\ tick'.drained = Len(events)
                /\ tick'.loads <= 1
                /\ (tick'.reload # "none" <=> tick'.loads = 1)
                /\ (events = <<>> => tick'.reload = "none"))]_vars
    /\ [][(pc # "boot" /\ tick'.reload = "none")
            => (/\ jobs' = jobs
                /\ last_reload_error' = last_reload_error
                /\ DOMAIN next_runs' = DOMAIN next_runs
                /\ \A id \in DOMAIN next_runs :
                      next_runs'[id] # next_runs[id]
                      => (pc = "fire" /\ should_run(next_runs, id, clock)))]_vars

\* a tick drained several notifications and made its one reload
C14_Witness ==
    /\ pc = "requests"
    /\ tick.drained >= 2
    /\ tick.loads = 1
    /\ tick.reload # "none"

\* C17 (as claimed): the firing step leaves a dispatched job with a next-fire
\* time later than now + 1 second (or none), and two schedule dispatches of
\* one job are more than one second apart.
C17_NoDoubleFire ==
    /\ [][(pc = "fire" /\ pc' = "harvest")
            => \A id \in Ids(jobs) :
                  should_run(next_runs, id, clock)
                  => \A ts \in next_runs'[id] : ts > clock + 1]_vars
    /\ [][(pc = "fire" /\ pc' = "harvest")
            => \A id \in Ids(jobs) \cap DOMAIN fired_at :
                  should_run(next_runs, id, clock)
                  => \A t0 \in fired_at[id] : clock - t0 > 1]_vars

\* C21 (as claimed): the step that takes the shutdown signal ends the loop
\* with run_daemon returning Ok, leaves every supervision task and the
\* completion channel as they are, and is followed by no step of a tick.
C21_ShutdownReturnsOk ==
    /\ [][(~ctrl_c /\ ctrl_c')
            => (/\ pc' = "exited_ok"
                /\ execs' = execs
                /\ rx_run' = rx_run)]_vars
    /\ [][ctrl_c => (/\ pc' = pc
                     /\ UNCHANGED <<jobs, next_runs, last_result, recent_runs, execs>>
                     /\ UNCHANGED <<tick, state_file>>)]_vars

C33_ReloadKeepsDueFire ==
    /\ [][(pc = "select" /\ tick.reload = "none" /\ tick'.reload = "ok")
            => \A k \in 1..Len(jobs) :
                  (/\ jobs[k].enabled
                   /\ jobs[k] \in Range(jobs')
                   /\ should_run(next_runs, jobs[k].id, clock))
                  => should_run(next_runs', jobs[k].id, clock)]_vars
    /\ [][(pc = "fire" /\ pc' = "harvest")
            => \A id \in Ids(jobs) :
                  should_run(next_runs, id, clock)
                  => \E k \in (Len(execs) + 1)..Len(execs') :
                        execs'[k].job.id = id /\ execs'[k].trigger = "schedule"]_vars

\* C35: the startup records an error exactly when the initial load fails,
\* and then starts with an empty job set; a reload that succeeds clears the
\* error and one that fails sets it; no other step changes it; and every
\* published state carries the error as it stands when the tick ends.
C35_ReloadErrorTracksLastLoad ==
    /\ [][(pc = "boot" /\ pc' = "select")
            => (/\ (last_reload_error' # None) <=> load_jobs(jobs_dir).err
                /\ load_jobs(jobs_dir).err => jobs' = <<>>)]_vars
    /\ [][(pc = "select" /\ tick'.reload = "ok") => last_reload_error' = None]_vars
    /\ [][(pc = "select" /\ tick'.reload = "failed") => last_reload_error' # None]_vars
    /\ [][(last_reload_error' # last_reload_error)
            => (pc = "boot" \/ (pc = "select" /\ tick'.reload # "none"))]_vars
    /\ [][(pc = "publish" /\ pc' = "select")
            => (/\ state_file' # None
                /\ Unwrap(state_file').last_reload_error = last_reload_error)]_vars

\* the daemon started on a directory it could not load and has published a
\* state with the error and no job
C35_Witness ==
    /\ state_file # None
    /\ Unwrap(state_file).last_reload_error = Some("initial load failed")
    /\ Unwrap(state_file).jobs = <<>>

\* C36: once the daemon has started, the next-fire map has an entry for
\* each installed job and for no other id, and the entry of a disabled job
\* holds no time; this is so after every step, and so at the end of a tick.
C36_NextRunsMatchJobs ==
    pc # "boot"
        => (/\ DOMAIN next_runs = Ids(jobs)
            /\ \A k \in 1..Len(jobs) : ~jobs[k].enabled => next_runs[jobs[k].id] = None)

\* a tick has ended after a reload that removed job b, and the map has an
\* entry for the job that is left and none for b
C36_Witness ==
    /\ pc = "select"
    /\ tick = NoTick
    /\ state_file # None
    /\ removed = {"b"}
    /\ DOMAIN next_runs = {"a"}

JOnce == SimpleJob("c", TRUE, "once", None, None, None, Some(D20240309 \o T0230))

DirOnce == {File("c.json", TRUE, TRUE, JOnce)}
DirOnceA == {File("c.json", TRUE, TRUE, JOnce), File("a.json", TRUE, TRUE, JA)}
DirOnceOff == {File("c.json", TRUE, TRUE, [JOnce EXCEPT !.enabled = FALSE])}
OnceDirs == {DirOnce, DirOnceA, DirOnceOff}

MaxOnceEdits == 2

OnceInit ==
    /\ DaemonInit
    /\ jobs_dir \in {DirOnce, DirOnceA}
    /\ budget = [edits |-> MaxOnceEdits, requests |-> 0]
    /\ SchedIdle
    /\ ReqIdle
    /\ LockIdle

\* a user rewrites the jobs directory, keeping c.json's schedule
EditOnce ==
    /\ budget.edits > 0
    /\ \E d \in OnceDirs \ {jobs_dir} : jobs_dir' = d
    /\ events' = IF Running THEN Append(events, "ok") ELSE events
    /\ budget' = [budget EXCEPT !.edits = @ - 1]
    /\ UNCHANGED <<clock, requests_dir, fault, state_file>>
    /\ UNCHANGED <<dvars, tick, removed, rsent, svars, lvars, qvars, xvars>>

OnceNext ==
    \/ ClockAdvance
    \/ EditOnce
    \/ Startup
    \/ TickReload
    \/ TickRequests
    \/ TickFire
    \/ TickHarvest
    \/ TickPublish

SpecOnce == OnceInit /\ [][OnceNext]_vars

\* the schedule dispatches of job id so far
ScheduleRuns(id) ==
    {k \in 1..Len(execs) : execs[k].job.id = id /\ execs[k].trigger = "schedule"}

\* C37: the once job is schedule-dispatched at most once, and from its
\* dispatch on its next-fire time is absent, whatever ticks and reloads
\* follow.
C37_OnceFiresAtMostOnce ==
    /\ Cardinality(ScheduleRuns("c")) <= 1
    /\ ("c" \in DOMAIN fired_at /\ fired_at["c"] # None /\ "c" \in DOMAIN next_runs)
          => next_runs["c"] = None

\* c fired at 02:30:00, a later tick reloaded the directory with c enabled,
\* and c has no next-fire time
C37_Witness ==
    /\ Cardinality(ScheduleRuns("c")) = 1
    /\ clock > HalfPastTwo
    /\ tick.reload = "ok"
    /\ \E k \in 1..Len(jobs) : jobs[k].id = "c" /\ jobs[k].enabled
    /\ next_runs["c"] = None

(***************************************************************************)
(* The ring on its own: supervision tasks reduced to their sends, and the  *)
(* harvest steps of successive ticks                                       *)
(***************************************************************************)
MaxRingSends == 102
RingBatch == 3

RingInit ==
    /\ DaemonInit
    /\ jobs_dir = DirA
    /\ budget = [edits |-> 0, requests |-> 0]
    /\ SchedIdle
    /\ ReqIdle
    /\ LockIdle

\* line 201: a supervision task sends the record of run rsent + 1
RingSend ==
    /\ rsent < MaxRingSends
    /\ Len(rx_run) < RingBatch
    /\ rx_run' = Append(rx_run,
           [run_id |-> rsent + 1, job_id |-> IF rsent % 2 = 0 THEN "a" ELSE "b",
            trigger |-> "schedule", status |-> "success"])
    /\ rsent' = rsent + 1
    /\ UNCHANGED <<pc, jobs, next_runs, last_result, recent_runs, last_reload_error,
                   now, execs>>
    /\ UNCHANGED <<evars, tick, removed, budget, svars, lvars, qvars, xvars>>

\* lines 97-104 of one tick
RingHarvest ==
    /\ Harvest
    /\ UNCHANGED <<pc, jobs, next_runs, last_reload_error, now>>
    /\ UNCHANGED <<evars, hvars, svars, lvars, qvars, xvars>>

RingNext == RingSend \/ RingHarvest

SpecRing == RingInit /\ [][RingNext]_vars

\* the number of records harvested so far
RingHarvested == rsent - Len(rx_run)

\* C3: the ring never holds more than 100 records; it holds the most
\* recently harvested ones (all of them up to 100, exactly the last 100
\* after that), in the order they arrived.
C3_RingHoldsLast100 ==
    /\ Len(recent_runs) <= 100
    /\ Len(recent_runs) = Min(RingHarvested, 100)
    /\ \A i \in 1..Len(recent_runs) :
          recent_runs[i].run_id = RingHarvested - Len(recent_runs) + i

\* more than 100 records were harvested and the oldest ones are gone
C3_Witness ==
    /\ RingHarvested > 100
    /\ Len(recent_runs) = 100
    /\ recent_runs[1].run_id = RingHarvested - 99
    /\ recent_runs[100].run_id = RingHarvested

\* the positions in the channel of the records of job id
RecordsOf(rx, id) == {i \in 1..Len(rx) : rx[i].job_id = id}

\* C31: a harvest step leaves, for every job that had a record in the
\* channel, the last of them as the job's last_result (whatever was there
\* before), leaves the other jobs' last_result as it was, and appends every
\* record of the channel to the ring, in order, before the ring is cut to
\* its last 100.
C31_HarvestKeepsLatest ==
    [][(rx_run # <<>> /\ rx_run' = <<>>)
        => (/\ \A id \in {rx_run[i].job_id : i \in 1..Len(rx_run)} :
                  /\ id \in DOMAIN last_result'
                  /\ last_result'[id] =
                        Some(rx_run[CHOOSE i \in RecordsOf(rx_run, id) :
                                       \A j \in RecordsOf(rx_run, id) : j <= i])
            /\ \A id \in DOMAIN last_result :
                  RecordsOf(rx_run, id) = {} => last_result'[id] = last_result[id]
            /\ LET all == recent_runs \o rx_run
               IN recent_runs' = SubSeq(all, Len(all) - Min(Len(all), RingCap) + 1, Len(all)))]_vars

\* a harvest replaced the record job a had by a later one, and the ring
\* holds both
C31_Witness ==
    /\ "a" \in DOMAIN last_result
    /\ last_result["a"] # None
    /\ \E i, j \in 1..Len(recent_runs) :
          /\ i < j
          /\ recent_runs[i].job_id = "a"
          /\ recent_runs[j] = Unwrap(last_result["a"])

(***************************************************************************)
(* The completion channel at its capacity: a burst of executions has ended *)
(* since the last tick and more of them end while the loop keeps ticking   *)
(***************************************************************************)
MaxChanSends == 5
\* the records already in the channel: two fewer than it can hold
ChanBacklog == ChanCap - 2

ChanRecord(k, id) ==
    [run_id |-> k, job_id |-> id, trigger |-> "schedule", status |-> "success"]

ChanInit ==
    /\ clock = StartClock
    /\ jobs_dir = DirABon
    /\ events = <<>>
    /\ requests_dir = {}
    /\ fault = "none"
    /\ state_file = None
    /\ pc = "harvest"
    /\ jobs = load_jobs(DirABon).val
    /\ next_runs = compute_next_runs(jobs, clock)
    /\ last_result = EmptyMap
    /\ recent_runs = <<>>
    /\ last_reload_error = None
    /\ rx_run = [k \in 1..ChanBacklog |-> ChanRecord(k, IF k % 2 = 0 THEN "a" ELSE "b")]
    /\ rsent = ChanBacklog
    /\ now = StartClock
    /\ execs = <<>>
    /\ tick = NoTick
    /\ removed = {}
    /\ budget = [edits |-> 0, requests |-> 0]
    /\ fired_at = EmptyMap
    /\ ctrl_c = FALSE
    /\ ExecIdle
    /\ SchedIdle
    /\ ReqIdle
    /\ LockIdle

\* line 201: the task of run rsent + 1 sends its record, once the channel
\* has room for it
ChanSend ==
    /\ rsent < ChanBacklog + MaxChanSends
    /\ send_ready(rx_run)
    /\ \E id \in {"a", "b"} : rx_run' = Append(rx_run, ChanRecord(rsent + 1, id))
    /\ rsent' = rsent + 1
    /\ UNCHANGED <<pc, jobs, next_runs, last_result, recent_runs, last_reload_error,
                   now, execs>>
    /\ UNCHANGED <<evars, tick, removed, budget, svars, lvars, qvars, xvars>>

ChanNext == ChanSend \/ RingHarvest

\* what the harvest of a tick does to a channel that holds records (the one
\* step of ChanNext that does so)
ChanDrained == rx_run # <<>> /\ rx_run' = <<>>

\* the ticker fires every second and nothing the loop waits for depends on
\* the channel, so records do not stay in the channel for ever
SpecChan == ChanInit /\ [][ChanNext]_vars /\ WF_rx_run(ChanDrained)

\* the record of run k was sent and is no longer in the channel
Delivered(k) == k <= rsent /\ \A i \in 1..Len(rx_run) : rx_run[i].run_id # k

\* C32: the channel never holds more than 256 records; while it holds 256
\* no send completes and the step the loop takes is a harvest that empties
\* it; every record sent is harvested in the end, is never in the channel
\* again after that, and is in the ring at most once.
C32_ChannelBoundedAndDrained ==
    /\ [](Len(rx_run) <= 256)
    /\ [][Len(rx_run) = 256 => rx_run' = <<>>]_vars
    /\ \A k \in 1..(ChanBacklog + MaxChanSends) : (rsent >= k) ~> Delivered(k)
    /\ [][\A k \in 1..(ChanBacklog + MaxChanSends) : Delivered(k) => Delivered(k)']_vars
    /\ [](\A i, j \in 1..Len(recent_runs) :
            recent_runs[i].run_id = recent_runs[j].run_id => i = j)
    /\ [](\A i \in 1..Len(recent_runs) : Delivered(recent_runs[i].run_id))

\* the channel is full while a further execution has its record to send
C32_Witness ==
    /\ Len(rx_run) = ChanCap
    /\ rsent < ChanBacklog + MaxChanSends
    /\ ~ENABLED ChanSend

(***************************************************************************)
(* The lockfile protocol: several daemon processes on one base directory   *)
(* (run_daemon lines 19-30 and its exits, app.rs start)                    *)
(***************************************************************************)
NDaemons == 2
Daemons == 1..NDaemons
\* the pid of a process that has died and left its lockfile behind
StalePid == NDaemons + 1

\* is_pid_running: kill(pid, 0) succeeds for a live process
is_pid_running(p) == p \in Daemons /\ lpc[p] \notin {"idle", "exited"}

\* daemon_running: Some(pid) when the lockfile names a live process
daemon_running == pid_file # None /\ is_pid_running(Unwrap(pid_file))

\* lines 21-25: the lockfile named a pid and that process exists
AlreadyRunning(seen) == seen # None /\ is_pid_running(Unwrap(seen))

\* as PidGuardDrop, with the removal left out
PidGuardKeep(file) == file

\* PidGuard::drop: remove_file(&self.path), whatever the file holds
PidGuardDrop(file) == None

LockInit ==
    /\ pid_file \in {None, Some(StalePid)}
    /\ lpc = [d \in Daemons |-> "idle"]
    /\ lseen = [d \in Daemons |-> None]
    /\ lres = [d \in Daemons |-> "none"]
    /\ lcmd = [out |-> "", exit |-> 0]
    /\ DaemonInit
    /\ jobs_dir = DirA
    /\ budget = [edits |-> 0, requests |-> 0]
    /\ SchedIdle
    /\ ReqIdle

LockFrame == UNCHANGED <<evars, dvars, hvars, svars, qvars, xvars>>

\* `macrond daemon`: app::run calls run_daemon
RunDaemon(d) ==
    /\ lpc[d] = "idle"
    /\ lpc' = [lpc EXCEPT ![d] = "read_pid"]
    /\ UNCHANGED <<pid_file, lseen, lres, lcmd>>
    /\ LockFrame

\* `macrond start`: report a running daemon, or spawn `macrond daemon`
StartCmd(d) ==
    /\ lpc[d] = "idle"
    /\ IF daemon_running
       THEN /\ lcmd' = [out |-> "daemon is already running", exit |-> 0]
            /\ UNCHANGED lpc
       ELSE /\ lcmd' = [out |-> "daemon started", exit |-> 0]
            /\ lpc' = [lpc EXCEPT ![d] = "read_pid"]
    /\ UNCHANGED <<pid_file, lseen, lres>>
    /\ LockFrame

\* line 21: read_pid
ReadPid(d) ==
    /\ lpc[d] = "read_pid"
    /\ lseen' = [lseen EXCEPT ![d] = pid_file]
    /\ lpc' = [lpc EXCEPT ![d] = "check"]
    /\ UNCHANGED <<pid_file, lres, lcmd>>
    /\ LockFrame

\* lines 22-24: is_pid_running, and the early return
CheckPid(d) ==
    /\ lpc[d] = "check"
    /\ IF AlreadyRunning(lseen[d])
       THEN /\ lpc' = [lpc EXCEPT ![d] = "exited"]
            /\ lres' = [lres EXCEPT ![d] = "already running"]
       ELSE /\ lpc' = [lpc EXCEPT ![d] = "write_pid"]
            /\ UNCHANGED lres
    /\ UNCHANGED <<pid_file, lseen, lcmd>>
    /\ LockFrame

\* lines 27-30: write_pid, and the guard is in place
WritePid(d) ==
    /\ lpc[d] = "write_pid"
    /\ pid_file' = Some(d)
    /\ lpc' = [lpc EXCEPT ![d] = "startup"]
    /\ UNCHANGED <<lseen, lres, lcmd>>
    /\ LockFrame

\* lines 32-56: the loop is entered, or a `?` returns the error
LockStartup(d) ==
    /\ lpc[d] = "startup"
    /\ \/ /\ lpc' = [lpc EXCEPT ![d] = "loop"]
          /\ UNCHANGED <<pid_file, lres>>
       \/ /\ lpc' = [lpc EXCEPT ![d] = "exited"]
          /\ lres' = [lres EXCEPT ![d] = "err"]
          /\ pid_file' = PidGuardDrop(pid_file)
    /\ UNCHANGED <<lseen, lcmd>>
    /\ LockFrame

\* lines 58-123: a `?` inside the loop returns the error
LoopError(d) ==
    /\ lpc[d] = "loop"
    /\ lpc' = [lpc EXCEPT ![d] = "exited"]
    /\ lres' = [lres EXCEPT ![d] = "err"]
    /\ pid_file' = PidGuardDrop(pid_file)
    /\ UNCHANGED <<lseen, lcmd>>
    /\ LockFrame

\* lines 119-128: the shutdown signal; the stop line may fail to be logged
LockShutdown(d) ==
    /\ lpc[d] = "loop"
    /\ lpc' = [lpc EXCEPT ![d] = "exited"]
    /\ \E r \in {"ok", "err"} : lres' = [lres EXCEPT ![d] = r]
    /\ pid_file' = PidGuardDrop(pid_file)
    /\ UNCHANGED <<lseen, lcmd>>
    /\ LockFrame

LockNext ==
    \E d \in Daemons :
        \/ RunDaemon(d)
        \/ StartCmd(d)
        \/ ReadPid(d)
        \/ CheckPid(d)
        \/ WritePid(d)
        \/ LockStartup(d)
        \/ LoopError(d)
        \/ LockShutdown(d)

SpecLock == LockInit /\ [][LockNext]_vars

\* C5 (as claimed): at most one daemon control loop runs on a base directory.
C5_SingleDaemon ==
    Cardinality({d \in Daemons : lpc[d] = "loop"}) <= 1

\* C6 (as claimed): a start made while the lockfile names a live daemon
\* fails with an "already running" error (run_daemon returns the error, the
\* start command exits non-zero), and no step of a start that has not
\* reached write_pid changes the lockfile.
C6_SecondStartFails ==
    /\ [][\A d \in Daemons :
            (lpc[d] = "check" /\ lpc'[d] # "check"
                /\ lseen[d] # None /\ is_pid_running(Unwrap(lseen[d])))
            => (/\ lpc'[d] = "exited"
                /\ lres'[d] = "already running"
                /\ pid_file' = pid_file)]_vars
    /\ [][\A d \in Daemons :
            (lpc[d] \in {"idle", "read_pid", "check"} /\ lpc'[d] # lpc[d])
            => pid_file' = pid_file]_vars
    /\ [](lcmd.out = "daemon is already running" => lcmd.exit # 0)

\* C7: once a daemon has written its pid, every return of run_daemon (the
\* shutdown signal, or an error out of the startup or the loop) leaves the
\* lockfile removed.
C7_ExitRemovesLockfile ==
    [][\A d \in Daemons :
          (lpc[d] \in {"startup", "loop"} /\ lpc'[d] = "exited")
          => pid_file' = None]_vars

\* a daemon that held the lockfile returned an error and the file is gone
C7_Witness ==
    \E d \in Daemons :
        /\ lpc[d] = "exited"
        /\ lres[d] = "err"
        /\ pid_file = None

\* C34 (as claimed): the exit of a daemon leaves the lockfile in place when
\* the file holds the pid of another daemon process that is running.
C34_ExitKeepsForeignLockfile ==
    [][\A d \in Daemons :
          (/\ lpc[d] # "exited" /\ lpc'[d] = "exited"
           /\ pid_file # None
           /\ Unwrap(pid_file) # d
           /\ is_pid_running(Unwrap(pid_file)))
          => pid_file' = pid_file]_vars

(***************************************************************************)
(* execute_job in detail: one supervision task, its child and its record   *)
(***************************************************************************)
MaxRuns == 3

\* model.rs default_timeout
default_timeout == 3600

\* #[serde(default = "default_timeout")] on timeout_seconds: the value of the
\* job file's field, or the default when the file omits it
deserialize_timeout(field) == IF field = None THEN default_timeout ELSE Unwrap(field)

\* as timeout_bound, without the clamp
TimeoutUnclamped(timeout_seconds) == timeout_seconds

\* line 228: Duration::from_secs(job.timeout_seconds.max(1))
timeout_bound(timeout_seconds) == IF timeout_seconds >= 1 THEN timeout_seconds ELSE 1

\* the ExitStatus of the child of each program: exit.success(), exit.code()
\* ("abort" dies of a signal: no code)
child_exit(program) ==
    IF program = "false" THEN [success |-> FALSE, code |-> Some(1)]
    ELSE IF program = "abort" THEN [success |-> FALSE, code |-> None]
    ELSE [success |-> TRUE, code |-> Some(0)]

\* lines 233-255: (status, exit_code, message) of each arm of the match
execute_result(arm, exit) ==
    IF arm = "exited"
    THEN [status |-> execute_status(IF exit.success THEN "exit_success" ELSE "exit_failure"),
          exit_code |-> exit.code,
          message |-> IF exit.success THEN "event=success" ELSE "event=failed exit_code"]
    ELSE IF arm = "wait_error"
    THEN [status |-> execute_status("wait_error"), exit_code |-> None,
          message |-> "event=failed message=wait-error"]
    ELSE [status |-> execute_status("timeout"), exit_code |-> None,
          message |-> "event=timeout"]

\* lines 260-269: the ExecutionRecord
execute_record(job, trigger, res) ==
    [run_id |-> 1, job_id |-> job.id, trigger |-> trigger, status |-> res.status,
     exit_code |-> res.exit_code, message |-> res.message]

\* as timeout_arm, without the wait for the killed child
TimeoutArmNoWait(pos) == "end_log"

\* lines 250-254: in the timeout arm, start_kill, then wait, then the record
timeout_arm(pos) == IF pos = "kill" THEN "reap" ELSE "end_log"

\* logging::log_job: the line write_line appends to the job log, with its
\* job_id= and run_id= tags and the message
log_job(job_id, run_id, message) ==
    [job_id |-> job_id, run_id |-> run_id, message |-> message]

ExecPrograms == {"true", "false", "sleep", "abort", "nosuch"}
ExecTimeouts == {None, Some(0), Some(1), Some(2)}

ExecInit ==
    /\ DaemonInit
    /\ jobs_dir = DirA
    /\ budget = [edits |-> 0, requests |-> 0]
    /\ SchedIdle
    /\ ReqIdle
    /\ LockIdle

ExecFrame ==
    /\ UNCHANGED <<pc, jobs, next_runs, last_result, recent_runs, last_reload_error,
                   now, execs>>
    /\ UNCHANGED <<evars, hvars, svars, lvars, qvars>>

\* spawn_job: tokio::spawn of execute_job for a job as deserialised
ExecSpawnJob ==
    /\ xpc = "idle"
    /\ \E p \in ExecPrograms, f \in ExecTimeouts :
         xjob' = [file_timeout |-> f,
                  job |-> [JA EXCEPT !.program = p,
                                     !.timeout_seconds = deserialize_timeout(f)]]
    /\ xpc' = "start_log"
    /\ UNCHANGED <<xchild, xrec, xlog, rx_run>>
    /\ ExecFrame

\* lines 207-216: the start line; when it cannot be written the `?` ends
\* execute_job
ExecStartLog ==
    /\ xpc = "start_log"
    /\ IF fault = "logs"
       THEN /\ xpc' = "dead"
            /\ UNCHANGED xlog
       ELSE /\ xpc' = "spawn"
            /\ xlog' = Append(xlog, log_job(xjob.job.id, 1, "event=start"))
    /\ UNCHANGED <<xjob, xchild, xrec, rx_run>>
    /\ ExecFrame

\* lines 218-231: command.spawn(); its error leaves execute_job by `?`, and
\* spawn_job (line 200) drops it
ExecSpawn ==
    /\ xpc = "spawn"
    /\ IF xjob.job.program = "nosuch"
       THEN /\ xpc' = "dead"
            /\ UNCHANGED xchild
       ELSE /\ xpc' = "wait"
            /\ \E r \in 0..MaxRuns :
                 /\ (xjob.job.program # "sleep" => r = 0)
                 /\ xchild' = [st |-> "running", runs |-> r, elapsed |-> 0,
                               bound |-> timeout_bound(xjob.job.timeout_seconds),
                               arm |-> "", kill_tried |-> FALSE]
    /\ UNCHANGED <<xjob, xrec, xlog, rx_run>>
    /\ ExecFrame

\* a second passes while the child runs
ExecTime ==
    /\ xpc \in {"wait", "kill", "reap"}
    /\ xchild.st = "running"
    /\ xchild.elapsed < xchild.runs
    /\ xchild' = [xchild EXCEPT !.elapsed = @ + 1]
    /\ UNCHANGED <<xjob, xpc, xrec, xlog, rx_run>>
    /\ ExecFrame

\* the child terminates by itself
ChildExit ==
    /\ xpc \in {"wait", "kill", "reap"}
    /\ xchild.st = "running"
    /\ xchild.elapsed = xchild.runs
    /\ xchild' = [xchild EXCEPT !.st = "exited"]
    /\ UNCHANGED <<xjob, xpc, xrec, xlog, rx_run>>
    /\ ExecFrame

\* line 233, Ok(Ok(exit)): child.wait() returned the exit status
ExecWaitDone ==
    /\ xpc = "wait"
    /\ xchild.st = "exited"
    /\ xchild' = [xchild EXCEPT !.st = "reaped", !.arm = "exited"]
    /\ xpc' = "end_log"
    /\ UNCHANGED <<xjob, xrec, xlog, rx_run>>
    /\ ExecFrame

\* line 245, Ok(Err(err)): child.wait() returned an error
ExecWaitError ==
    /\ xpc = "wait"
    /\ xchild' = [xchild EXCEPT !.arm = "wait_error"]
    /\ xpc' = "end_log"
    /\ UNCHANGED <<xjob, xrec, xlog, rx_run>>
    /\ ExecFrame

\* line 250, Err(_): the bound elapsed before child.wait() returned
ExecTimeout ==
    /\ xpc = "wait"
    /\ xchild.st = "running"
    /\ xchild.elapsed >= xchild.bound
    /\ xchild' = [xchild EXCEPT !.arm = "timeout"]
    /\ xpc' = "kill"
    /\ UNCHANGED <<xjob, xrec, xlog, rx_run>>
    /\ ExecFrame

\* line 251: let _ = child.start_kill(); the kill may be refused
ExecKill ==
    /\ xpc = "kill"
    /\ \E ok \in BOOLEAN :
         xchild' = [xchild EXCEPT !.kill_tried = TRUE,
                                  !.st = IF ok /\ @ = "running" THEN "killed" ELSE @]
    /\ xpc' = timeout_arm(xpc)
    /\ UNCHANGED <<xjob, xrec, xlog, rx_run>>
    /\ ExecFrame

\* lines 252-253: let _ = child.wait().await returns once the child has
\* terminated
ExecReap ==
    /\ xpc = "reap"
    /\ xchild.st \in {"exited", "killed"}
    /\ xchild' = [xchild EXCEPT !.st = "reaped"]
    /\ xpc' = timeout_arm(xpc)
    /\ UNCHANGED <<xjob, xrec, xlog, rx_run>>
    /\ ExecFrame

\* lines 257-269: the end line, and the record made of the arm's result;
\* when the line cannot be written the `?` ends execute_job without a record
ExecEndLog ==
    /\ xpc = "end_log"
    /\ LET res == execute_result(xchild.arm, child_exit(xjob.job.program))
       IN IF fault = "logs"
          THEN /\ xpc' = "dead"
               /\ UNCHANGED <<xrec, xlog>>
          ELSE /\ xpc' = "send"
               /\ xlog' = Append(xlog, log_job(xjob.job.id, 1, res.message))
               /\ xrec' = Some(execute_record(xjob.job, "schedule", res))
    /\ UNCHANGED <<xjob, xchild, rx_run>>
    /\ ExecFrame

\* line 201: tx.send(record)
ExecSend ==
    /\ xpc = "send"
    /\ Len(rx_run) < ChanCap
    /\ rx_run' = Append(rx_run, Unwrap(xrec))
    /\ xpc' = "done"
    /\ UNCHANGED <<xjob, xchild, xrec, xlog>>
    /\ ExecFrame

\* lines 97-104 of a tick of the daemon the task belongs to
ExecHarvest ==
    /\ rx_run # <<>>
    /\ Harvest
    /\ UNCHANGED <<pc, jobs, next_runs, last_reload_error, now>>
    /\ UNCHANGED <<evars, hvars, svars, lvars, qvars, xvars>>

ExecNext ==
    \/ ExecSpawnJob
    \/ ExecStartLog
    \/ ExecSpawn
    \/ ExecTime
    \/ ChildExit
    \/ ExecWaitDone
    \/ ExecWaitError
    \/ ExecTimeout
    \/ ExecKill
    \/ ExecReap
    \/ ExecEndLog
    \/ ExecSend
    \/ ExecHarvest

SpecExec == ExecInit /\ [][ExecNext]_vars

\* the records of the task that have been sent or harvested
Emitted ==
    Range(rx_run) \cup UNION {last_result[id] : id \in DOMAIN last_result}

\* C11 (as claimed): a task whose child could not be spawned ends with a
\* record of status failed built and sent.
C11_SpawnFailureEmitsRecord ==
    (xjob.job.program = "nosuch" /\ xpc \in {"dead", "done"})
    => \E r \in Emitted : r.status = "failed"

\* C18: a record's status is success, failed or timeout, and status and exit
\* code follow the outcome of the wait: exit with success gives success and
\* the code, exit with a non-success code gives failed and the code, a wait
\* error gives failed and no code, the bound elapsing gives timeout and no
\* code; the record is sent as built.
C18_StatusByOutcome ==
    LET exit == child_exit(xjob.job.program)
    IN /\ \A r \in xrec :
             /\ r.status \in {"success", "failed", "timeout"}
             /\ (xchild.arm = "exited" /\ exit.success)
                   => (r.status = "success" /\ r.exit_code = exit.code)
             /\ (xchild.arm = "exited" /\ ~exit.success /\ exit.code # None)
                   => (r.status = "failed" /\ r.exit_code = exit.code)
             /\ xchild.arm = "wait_error"
                   => (r.status = "failed" /\ r.exit_code = None)
             /\ xchild.arm = "timeout"
                   => (r.status = "timeout" /\ r.exit_code = None)
       /\ \A r \in Emitted : xrec = Some(r)

\* the record of a timed-out child has been harvested
C18_Witness ==
    /\ xchild.st # "none"
    /\ xchild.arm = "timeout"
    /\ "a" \in DOMAIN last_result
    /\ \E r \in last_result["a"] : r.status = "timeout" /\ r.exit_code = None

C20_TimeoutBound ==
    xchild.st # "none"
    => LET cfg == IF xjob.file_timeout = None THEN 3600 ELSE Unwrap(xjob.file_timeout)
           bound == IF cfg < 1 THEN 1 ELSE cfg
       IN /\ xjob.job.timeout_seconds = cfg
          /\ xchild.bound = bound
          /\ (xchild.arm = "timeout" => xchild.elapsed >= bound)

\* a job with timeout_seconds 0 timed out after one second
C20_Witness ==
    /\ xjob.file_timeout = Some(0)
    /\ xchild.st # "none"
    /\ xchild.arm = "timeout"
    /\ xchild.elapsed = 1
    /\ xchild.bound = 1

\* the start lines and the end lines of the task's log
StartLines == {k \in 1..Len(xlog) : xlog[k].message = "event=start"}
EndLines == {k \in 1..Len(xlog) : xlog[k].message # "event=start"}

\* C22 (as claimed): a started task has written exactly one start line, a
\* task writes at most one end line and writes it after the start line, every
\* line carries the job id and the run id, and a task that wrote its start
\* line and has come to its end has written its end line.
C22_StartAndEndLines ==
    /\ Cardinality(StartLines) <= 1
    /\ Cardinality(EndLines) <= 1
    /\ (xpc \notin {"idle", "start_log"} => StartLines = {1})
    /\ EndLines \subseteq {2}
    /\ \A k \in 1..Len(xlog) : xlog[k].job_id = xjob.job.id /\ xlog[k].run_id = 1
    /\ (xpc \in {"send", "done"} => EndLines = {2})
    /\ ((xpc \in {"dead", "done"} /\ StartLines # {}) => EndLines # {})

(***************************************************************************)
(* The request directory: clients that call submit_run_request while the   *)
(* daemon ticks                                                            *)
(***************************************************************************)
MaxClients == 2
Clients == 1..MaxClients

\* what a client asks for: job a (enabled), job b (disabled), job c
\* (unknown), text that is no request, bytes that are no text
ReqPayloads == {"a", "b", "c", "garbage", "binary"}

ReqInit ==
    /\ DaemonInit
    /\ jobs_dir = DirAB
    /\ budget = [edits |-> 0, requests |-> 0]
    /\ creq = [c \in Clients |-> [st |-> "idle", payload |-> ""]]
    /\ SchedIdle
    /\ LockIdle

ReqFrame ==
    /\ UNCHANGED <<clock, jobs_dir, events, fault, state_file>>
    /\ UNCHANGED <<dvars, hvars, svars, lvars, fired_at, ctrl_c, xvars>>

ReqFile(c) == {f \in requests_dir : f.req = c}

\* line 353, std::fs::write, first half: File::create makes the file, empty
ReqCreate(c) ==
    /\ creq[c].st = "idle"
    /\ \E p \in ReqPayloads : creq' = [creq EXCEPT ![c] = [st |-> "created", payload |-> p]]
    /\ requests_dir' = requests_dir \cup {[req |-> c, payload |-> ""]}
    /\ ReqFrame

\* line 353, second half: write_all on the open file, which the daemon may
\* have removed from the directory meanwhile; submit_run_request returns Ok
ReqWrite(c) ==
    /\ creq[c].st = "created"
    /\ creq' = [creq EXCEPT ![c].st = "done"]
    /\ requests_dir' = (requests_dir \ ReqFile(c))
                          \cup {[req |-> c, payload |-> creq[c].payload] : f \in ReqFile(c)}
    /\ ReqFrame

ReqNext ==
    \/ \E c \in Clients : ReqCreate(c)
    \/ \E c \in Clients : ReqWrite(c)
    \/ Startup
    \/ TickReload
    \/ TickRequests
    \/ TickFire
    \/ TickHarvest
    \/ TickPublish

SpecReq == ReqInit /\ [][ReqNext]_vars

\* C15 (as claimed): the request step of a tick ends without an error, leaves
\* none of the files it found in the directory, and dispatches only for
\* payloads that name an installed, enabled job.
C15_RequestsDeleted ==
    [][(pc = "requests" /\ pc' # "requests")
          => (/\ pc' = "fire"
              /\ requests_dir' \cap requests_dir = {}
              /\ \A k \in (Len(execs) + 1)..Len(execs') :
                    /\ execs'[k].trigger = "manual"
                    /\ execs'[k].job.enabled
                    /\ \E f \in requests_dir : f.payload = execs'[k].job.id)]_vars

\* the completed submissions for job a whose file is no longer there
ConsumedA ==
    {c \in Clients : creq[c].st = "done" /\ creq[c].payload = "a" /\ ReqFile(c) = {}}

\* C16 (as claimed): every completed submission that names the enabled job a
\* either still has its file in the directory, to be read by the next tick,
\* or was dispatched with trigger manual.
C16_SubmittedRequestDispatched ==
    Cardinality(ConsumedA)
        <= Cardinality({k \in 1..Len(execs) :
                           execs[k].trigger = "manual" /\ execs[k].job.id = "a"})

\* the same daemon and clients while the clock runs, so that schedules come
\* due in the ticks that read requests
OrderNext ==
    \/ ClockAdvance
    \/ \E c \in Clients : ReqCreate(c)
    \/ \E c \in Clients : ReqWrite(c)
    \/ Startup
    \/ TickReload
    \/ TickRequests
    \/ TickFire
    \/ TickHarvest
    \/ TickPublish

SpecOrder == ReqInit /\ [][OrderNext]_vars

\* C26: among the executions a tick has dispatched, every manual one comes
\* before every scheduled one, and a job that the tick dispatches by
\* schedule and for which it read a request was dispatched for the request
\* first.
C26_ManualBeforeSchedule ==
    /\ \A k, m \in 1..Len(execs) :
          (/\ execs[k].fresh /\ execs[k].trigger = "manual"
           /\ execs[m].fresh /\ execs[m].trigger = "schedule") => k < m
    /\ \A m \in 1..Len(execs) :
          (/\ execs[m].fresh /\ execs[m].trigger = "schedule"
           /\ execs[m].job.id \in tick.reqs)
          => \E k \in 1..(m - 1) :
                /\ execs[k].fresh /\ execs[k].trigger = "manual"
                /\ execs[k].job.id = execs[m].job.id

\* the executions of job id among ex
RunsOf(ex, id) == {k \in 1..Len(ex) : ex[k].job.id = id}

\* the daemon, its clients and the clock of SpecOrder, with the supervision
\* tasks running to their end at any time
FlightNext ==
    \/ OrderNext
    \/ \E k \in 1..Len(execs) : ExecRun(k)

SpecFlight == ReqInit /\ [][FlightNext]_vars

\* C40: dispatch does not look at the executions in flight. The step that
\* reads the requests starts one execution for every request naming an
\* installed enabled job, and the firing step one for every installed job
\* whose next-fire time has come, whatever executions of the job have not
\* ended; the executions that were there are untouched by the step.
C40_DispatchNotGated ==
    /\ [][pc = "requests" /\ pc' = "fire" =>
            LET reqs == ReadRequests(requests_dir)
            IN \A id \in Range(reqs) :
                  FindEnabled(jobs, id) # None =>
                      Cardinality(RunsOf(execs', id)) =
                          Cardinality(RunsOf(execs, id))
                              + Cardinality({k \in 1..Len(reqs) : reqs[k] = id})]_vars
    /\ [][pc = "fire" /\ pc' = "harvest" =>
            \A id \in Ids(jobs) :
                should_run(next_runs, id, clock) =>
                    Cardinality(RunsOf(execs', id)) = Cardinality(RunsOf(execs, id)) + 1]_vars
    /\ [][(pc = "requests" /\ pc' = "fire") \/ (pc = "fire" /\ pc' = "harvest") =>
            (\A k \in 1..Len(execs) : Len(execs') >= k /\ execs[k] = execs'[k])]_vars

\* two executions of job a are in flight: the first was dispatched for a
\* request in an earlier tick and has not ended, the second by the schedule
\* in this tick
C40_Witness ==
    \E k, m \in 1..Len(execs) :
        /\ k < m
        /\ execs[k].job.id = "a" /\ execs[m].job.id = "a"
        /\ execs[k].st = "spawned" /\ execs[m].st = "spawned"
        /\ execs[k].trigger = "manual" /\ ~execs[k].fresh
        /\ execs[m].trigger = "schedule" /\ execs[m].fresh

\* C39: the step that reads the requests and dispatches the jobs they name
\* leaves the job set and the whole next-fire map as they were.
C39_ManualKeepsNextRuns ==
    [][pc = "requests" => (jobs' = jobs /\ next_runs' = next_runs)]_vars

\* job a, which has a next-fire time, has just been dispatched by a request
\* and its next-fire time is still in place
C39_Witness ==
    /\ pc = "fire"
    /\ "a" \in tick.reqs
    /\ \E k \in 1..Len(execs) :
          execs[k].fresh /\ execs[k].trigger = "manual" /\ execs[k].job.id = "a"
    /\ "a" \in DOMAIN next_runs
    /\ next_runs["a"] # None

\* one tick dispatched job a for a request and then for its schedule
C26_Witness ==
    /\ pc = "harvest"
    /\ "a" \in tick.reqs
    /\ \E k, m \in 1..Len(execs) :
          /\ k < m
          /\ execs[k].fresh /\ execs[k].trigger = "manual" /\ execs[k].job.id = "a"
          /\ execs[m].fresh /\ execs[m].trigger = "schedule" /\ execs[m].job.id = "a"

(***************************************************************************)
(* The state file: write_state as the two halves of std::fs::write, and    *)
(* the status and list commands reading the file while the daemon ticks    *)
(***************************************************************************)
\* the file after File::create (n = 0: empty) or after a write that took only
\* a part of the text (n = 1: a proper prefix of the JSON text)
Truncated(n) == [truncated |-> n]

\* what a reader finds at paths.state_file
FileView(file) ==
    IF file = None THEN "absent"
    ELSE IF "truncated" \in DOMAIN Unwrap(file) THEN "partial"
    ELSE "full"

\* app.rs read_state: read_to_string, then serde_json::from_str; no proper
\* prefix of the text of a JSON object is JSON
read_state(file) ==
    IF FileView(file) = "absent" THEN Err("No such file or directory")
    ELSE IF FileView(file) = "partial" THEN Err("parse state file")
    ELSE Ok(Unwrap(file))

\* app.rs status: what is printed about the state, and the exit code
status(file) ==
    IF file # None
    THEN LET state == read_state(file)
         IN IF state.err THEN [out |-> state.msg, exit |-> 1]
            ELSE [out |-> "updated_at, loaded_jobs", exit |-> 0]
    ELSE [out |-> "state: unavailable", exit |-> 0]

\* app.rs list: the jobs of the snapshot, or without a state file the jobs of
\* the jobs directory
list(file, dir) ==
    IF file # None
    THEN LET state == read_state(file)
         IN IF state.err THEN [out |-> state.msg, exit |-> 1]
            ELSE [out |-> "jobs of the snapshot", exit |-> 0]
    ELSE LET r == load_jobs(dir)
         IN IF r.err THEN [out |-> r.msg, exit |-> 1]
            ELSE [out |-> "jobs of jobs/", exit |-> 0]

StateInit ==
    /\ DaemonInit
    /\ jobs_dir = DirABon
    /\ budget = [edits |-> 0, requests |-> 0]
    /\ SchedIdle
    /\ ReqIdle
    /\ pid_file = None /\ lpc = <<>> /\ lseen = <<>> /\ lres = <<>>
    /\ lcmd = [cmd |-> "", saw |-> "", out |-> "", exit |-> 0]

\* daemon.rs line 303, std::fs::write, first half: File::create truncates
WriteStateCreate ==
    /\ pc = "publish"
    /\ state_file' = Some(Truncated(0))
    /\ pc' = "write_all"
    /\ UNCHANGED <<jobs, next_runs, last_result, recent_runs, last_reload_error,
                   rx_run, now, execs>>
    /\ UNCHANGED <<clock, jobs_dir, events, requests_dir, fault>>
    /\ UNCHANGED <<hvars, svars, lvars, qvars, xvars>>

\* line 303, second half: a write call of write_all takes a part of the text
WriteStatePart ==
    /\ pc = "write_all"
    /\ state_file = Some(Truncated(0))
    /\ state_file' = Some(Truncated(1))
    /\ UNCHANGED <<clock, jobs_dir, events, requests_dir, fault>>
    /\ UNCHANGED <<dvars, hvars, svars, lvars, qvars, xvars>>

\* line 303, second half: write_all has written the whole text; the tick ends
WriteStateAll ==
    /\ pc = "write_all"
    /\ state_file' = Some(Snapshot(jobs, next_runs, last_result, recent_runs,
                                   last_reload_error, clock))
    /\ execs' = [k \in DOMAIN execs |-> [execs[k] EXCEPT !.fresh = FALSE]]
    /\ tick' = NoTick
    /\ pc' = "select"
    /\ UNCHANGED <<jobs, next_runs, last_result, recent_runs, last_reload_error,
                   rx_run, now>>
    /\ UNCHANGED <<clock, jobs_dir, events, requests_dir, fault>>
    /\ UNCHANGED <<removed, budget, rsent, svars, lvars, qvars, xvars>>

\* `macrond status`, run by a user at any moment
StatusCmd ==
    /\ lcmd' = [cmd |-> "status", saw |-> FileView(state_file)] @@ status(state_file)
    /\ UNCHANGED <<pid_file, lpc, lseen, lres>>
    /\ UNCHANGED <<evars, dvars, hvars, svars, qvars, xvars>>

\* `macrond list`, run by a user at any moment
ListCmd ==
    /\ lcmd' = [cmd |-> "list", saw |-> FileView(state_file)] @@ list(state_file, jobs_dir)
    /\ UNCHANGED <<pid_file, lpc, lseen, lres>>
    /\ UNCHANGED <<evars, dvars, hvars, svars, qvars, xvars>>

StateNext ==
    \/ ClockAdvance
    \/ Startup
    \/ TickReload
    \/ TickRequests
    \/ TickFire
    \/ TickHarvest
    \/ WriteStateCreate
    \/ WriteStatePart
    \/ WriteStateAll
    \/ StatusCmd
    \/ ListCmd

SpecState == StateInit /\ [][StateNext]_vars

\* C25 (as claimed): a status or list command that finds the state file
\* absent or partly written does not fail, and status then prints
\* "state: unavailable".
C25_ReaderFallsBack ==
    (lcmd.cmd \in {"status", "list"} /\ lcmd.saw \in {"absent", "partial"})
        => (/\ lcmd.exit = 0
            /\ lcmd.cmd = "status" => lcmd.out = "state: unavailable")

(***************************************************************************)
(* The loader on its own: one call of load_jobs on a directory             *)
(***************************************************************************)
\* the files a jobs directory of the model is made of: three jobs, a second
\* file with the id of the first, a file that is not JSON text, a file whose
\* job does not validate, and a file without the json extension
LoadFiles ==
    { File("a.json", TRUE, TRUE, JA),
      File("b.json", TRUE, TRUE, JBon),
      File("c.json", TRUE, TRUE, SimpleJob("c", TRUE, "weekly", Some(T0900), Some(6), None, None)),
      File("a2.json", TRUE, TRUE, [JBoff EXCEPT !.id = "a"]),
      File("m.json", TRUE, FALSE, JA),
      File("w.json", TRUE, TRUE, SimpleJob("b", TRUE, "weekly", Some(T0900), Some(8), None, None)),
      Notes }

LoadInit ==
    /\ DaemonInit
    /\ jobs_dir \in SUBSET LoadFiles
    /\ budget = [edits |-> 0, requests |-> 0]
    /\ SchedIdle
    /\ ReqIdle
    /\ LockIdle

\* the caller evaluates load_jobs(jobs_dir); the loader only reads
LoadEval ==
    /\ ~load_out.done
    /\ load_out' = [done |-> TRUE, res |-> load_jobs(jobs_dir)]
    /\ UNCHANGED <<sjob, safter, swall, sres>>
    /\ UNCHANGED <<evars, dvars, hvars, lvars, qvars, xvars>>

LoadNext == LoadEval

SpecLoad == LoadInit /\ [][LoadNext]_vars

\* C23: load_jobs fails when a json file of the directory does not parse or
\* validate or when two of them carry the same id, and the error carries no
\* jobs; otherwise it returns the job of every json file, once each, in
\* strictly ascending order of id.  The call changes no file.
C23_LoadAllOrNothing ==
    /\ [](load_out.done =>
            LET files == {f \in jobs_dir : f.json}
                bad == \E f \in files : ~f.parses \/ validate_job(f.job).err
                dup == \E f, g \in files : f.file # g.file /\ f.job.id = g.job.id
                r == load_out.res
            IN IF bad \/ dup
               THEN r.err /\ "val" \notin DOMAIN r
               ELSE /\ ~r.err
                    /\ Len(r.val) = Cardinality(files)
                    /\ Range(r.val) = {f.job : f \in files}
                    /\ \A i, j \in 1..Len(r.val) :
                          i < j => IdRank(r.val[i].id) < IdRank(r.val[j].id))
    /\ [][jobs_dir' = jobs_dir]_vars

\* load_jobs failed on a directory whose files all parse and validate, two
\* of them with the same id
C23_Witness ==
    /\ load_out.done
    /\ load_out.res.err
    /\ \A f \in jobs_dir : f.json => (f.parses /\ ~validate_job(f.job).err)
    /\ \E f, g \in jobs_dir : f.json /\ g.json /\ f.file # g.file /\ f.job.id = g.job.id

(***************************************************************************)
(* The schedule evaluator on its own: one call of next_run_after           *)
(***************************************************************************)
SchedJobs ==
    { CronJob("a", TRUE, "0 * * * * *"),
      CronJob("a", TRUE, "*/30 * * * * *"),
      SimpleJob("a", TRUE, "daily", Some(T0230), None, None, None),
      SimpleJob("a", TRUE, "daily", Some(T0130), None, None, None),
      SimpleJob("a", TRUE, "daily", Some(T0900), None, None, None),
      SimpleJob("a", FALSE, "daily", Some(T0900), None, None, None),
      SimpleJob("a", TRUE, "weekly", Some(T0230), Some(7), None, None),
      SimpleJob("a", TRUE, "weekly", Some(T0900), Some(6), None, None),
      SimpleJob("a", TRUE, "monthly", Some(T0230), None, Some(10), None),
      SimpleJob("a", TRUE, "monthly", Some(T0000), None, Some(31), None),
      SimpleJob("a", TRUE, "everyminute", None, None, None, None),
      SimpleJob("a", TRUE, "once", None, None, None, Some(D20240309 \o T0230)),
      SimpleJob("a", TRUE, "once", None, None, None, Some(D20240310 \o T0230)),
      SimpleJob("a", TRUE, "once", None, None, None, Some(D20241103 \o T0130)),
      SimpleJob("a", TRUE, "daily", Some(TPlus0900), None, None, None),
      SimpleJob("a", TRUE, "monthly", Some(T00900), None, Some(5), None) }

\* how far around each base instant the lower bounds are drawn
SchedSpread == 1

SchedBases ==
    { Naive(2024, 2, 1, 0, 0, 0),       \* start of a 29-day month
      Naive(2024, 2, 29, 0, 0, 0),      \* start of its last day
      Naive(2024, 3, 9, 2, 30, 0),      \* the day before the gap, at 02:30
      Naive(2024, 3, 10, 0, 0, 30),     \* the day of the gap, before it
      Naive(2024, 3, 10, 1, 59, 30),    \* half a minute before the gap
      Naive(2024, 3, 3, 2, 30, 0),      \* a week before the gap
      Naive(2024, 2, 10, 2, 30, 0),     \* a month before the gap
      Naive(2024, 11, 3, 0, 30, 0),     \* 01:30 local, first pass of the overlap
      Naive(2024, 11, 3, 1, 30, 0) }    \* 01:30 local, second pass of the overlap

SchedAfters == {b + k : b \in SchedBases, k \in (0 - SchedSpread)..SchedSpread}

SchedInit ==
    /\ sjob \in {j \in SchedJobs : ~validate_job(j).err}
    /\ safter \in SchedAfters
    /\ swall \in {safter - 1, safter + 1}
    /\ sres = [done |-> FALSE]
    /\ load_out = [done |-> FALSE]
    /\ DaemonInit
    /\ jobs_dir = DirA
    /\ budget = [edits |-> 0, requests |-> 0]
    /\ LockIdle
    /\ ReqIdle

\* the caller evaluates next_run_after(job, after)
SchedEval ==
    /\ ~sres.done
    /\ sres' = [done |-> TRUE, res |-> next_run_after(sjob, safter, swall)]
    /\ UNCHANGED <<sjob, safter, swall, load_out>>
    /\ UNCHANGED <<evars, dvars, hvars, lvars, qvars, xvars>>

SchedNext == SchedEval

SpecSched == SchedInit /\ [][SchedNext]_vars

\* C4: for every valid job and every lower bound t, next_run_after(job, t) is
\* absent or an instant strictly greater than t, also when local_datetime
\* takes its fallback path.
C4_NextRunStrictlyAfter ==
    (sres.done /\ ~sres.res.err /\ sres.res.val # None)
        => Unwrap(sres.res.val) > safter

\* the job under evaluation is an enabled simple job with this repeat
SchedRepeat(repeat) ==
    sres.done /\ sjob.enabled /\ sjob.kind = "simple" /\ sjob.repeat = repeat

\* C27 (as claimed): for an enabled job that validate_job accepted,
\* next_run_after returns no error, and for a daily, weekly, monthly or
\* every-minute job it returns an instant.
C27_AcceptedJobHasNextRun ==
    (sres.done /\ sjob.enabled)
        => (/\ ~sres.res.err
            /\ (sjob.kind = "simple"
                   /\ sjob.repeat \in {"daily", "weekly", "monthly", "everyminute"})
               => sres.res.val # None)

\* C28 (as claimed): for an enabled every-minute job the result is an instant
\* whose local time has seconds 0 and that lies in (after, after + 60 s].
C28_EveryMinuteOnTheMinute ==
    SchedRepeat("everyminute")
        => (/\ ~sres.res.err
            /\ sres.res.val # None
            /\ LET r == Unwrap(sres.res.val)
               IN /\ NaiveLocal(r) % 60 = 0
                  /\ r > safter
                  /\ r <= safter + 60)

\* the evaluation of a monthly job with day 31 for a lower bound in a month
\* of fewer than 31 days; the month of the lower bound and the instant of
\* the job's time on the last day of that month
MonthlyClampCase ==
    /\ SchedRepeat("monthly")
    /\ sjob.day = Some(31)
    /\ ~sres.res.err
    /\ MonthLen(YearOf(date_naive(safter)), MonthOf(date_naive(safter))) < 31
LastDayFire ==
    LET dn == date_naive(safter)
        y == YearOf(dn)
        m == MonthOf(dn)
        t == ParseNaiveTime(Unwrap(sjob.time)).val
    IN from_local_datetime(Naive(y, m, MonthLen(y, m), t.hour, t.minute, 0))

\* C29 (as claimed): the result is an instant on the last day of the month
\* of the lower bound.
C29_MonthlyClampSameMonth ==
    MonthlyClampCase
        => (/\ sres.res.val # None
            /\ LET dn == date_naive(safter)
                   rd == date_naive(Unwrap(sres.res.val))
               IN /\ YearOf(rd) = YearOf(dn)
                  /\ MonthOf(rd) = MonthOf(dn)
                  /\ DayOf(rd) = MonthLen(YearOf(dn), MonthOf(dn)))

\* C29 amended: when the job's time on the last day of the lower bound's
\* month is strictly after the lower bound, the result is that instant;
\* otherwise the result is the job's time in the following month, on day 31
\* or on that month's last day.
C29_MonthlyClamp ==
    (MonthlyClampCase /\ LastDayFire.kind = "Single")
        => (/\ sres.res.val # None
            /\ LET dn == date_naive(safter)
                   r == Unwrap(sres.res.val)
                   rd == date_naive(r)
                   ny == IF MonthOf(dn) = 12 THEN YearOf(dn) + 1 ELSE YearOf(dn)
                   nm == IF MonthOf(dn) = 12 THEN 1 ELSE MonthOf(dn) + 1
                   t == ParseNaiveTime(Unwrap(sjob.time)).val
               IN IF LastDayFire.dt > safter
                  THEN r = LastDayFire.dt
                  ELSE /\ YearOf(rd) = ny /\ MonthOf(rd) = nm
                       /\ DayOf(rd) = (IF MonthLen(ny, nm) < 31 THEN MonthLen(ny, nm) ELSE 31)
                       /\ NaiveLocal(r) % 86400 = t.hour * 3600 + t.minute * 60)

\* day 31 at 00:00 evaluated from 2024-02-01 00:00 gave 2024-02-29 00:00
C29_Witness ==
    /\ MonthlyClampCase
    /\ safter = Naive(2024, 2, 1, 0, 0, 0)
    /\ sres.res.val = Some(Naive(2024, 2, 29, 0, 0, 0))

\* C30: for an enabled once job the result is no error; it is the first
\* instant whose local time reads once_at when that instant is strictly after
\* the lower bound, and absent when that instant is at or before the lower
\* bound (and when no instant reads once_at).
C30_OnceStrictlyAfter ==
    SchedRepeat("once")
        => LET n == ParseNaiveDateTime(Unwrap(sjob.once_at)).val
               I == {i \in {n - 3600, n} : i >= 0 /\ NaiveLocal(i) = n}
               first == CHOOSE i \in I : \A j \in I : i <= j
           IN /\ ~sres.res.err
              /\ sres.res.val = (IF I # {} /\ first > safter THEN Some(first) ELSE None)

\* a once job evaluated at the very instant of its once_at gave no next run
C30_Witness ==
    /\ SchedRepeat("once")
    /\ sjob.once_at = Some(D20240309 \o T0230)
    /\ safter = Naive(2024, 3, 9, 2, 30, 0)
    /\ sres.res.val = None

====
